---- MODULE Spec2Model ----
(***************************************************************************)
(* Query lifecycle of the snowflake connector.                             *)
(*                                                                         *)
(*   Spec          MultipleSnowflakeSQLResponse: draining a submitted      *)
(*                 batch with complete() (snowflake-deserializer,          *)
(*                 multiple.rs)                                            *)
(*   LiveSpec      Spec with the fairness of a caller that keeps calling   *)
(*                 complete() and a service that eventually answers        *)
(*   BuildSpec     MultipleSnowflakeSQL: add_sql / add_multiple_sql /      *)
(*                 finish_sql / run (multiple.rs)                          *)
(*   SelectSpec    SnowflakeSQL::select (snowflake-deserializer, lib.rs)   *)
(*   PartitionSpec PendingQuery::select with partition assembly            *)
(*                 (src/lib.rs)                                            *)
(*   DecodeSpec    the derived SnowflakeDeserialize::snowflake_deserialize *)
(*                 (snowflake_connector_derive, lib.rs)                    *)
(*   StatementSpec select / lazy_select and the continuation of an         *)
(*                 in-progress answer (lib.rs, lazy.rs)                    *)
(*   ClientSpec    complete(), select / lazy_select and PendingQuery::     *)
(*                 select side by side, for the requests they send         *)
(*   AccessSpec    statement_status / are_all_complete /                   *)
(*                 unfinished_statements on a partly drained batch         *)
(*   BindSpec      SnowflakeSQL::add_binding with BindingValue encoding    *)
(*                 (bindings.rs, lib.rs)                                   *)
(*   LazySpec      LazyRows / LazyRow accesses after parse_rows (lazy.rs)  *)
(*   CellSpec      DeserializeFromStr of a nullable cell                   *)
(*                 (snowflake-deserialize, lib.rs, datetime.rs)            *)
(***************************************************************************)
EXTENDS Integers, Sequences, FiniteSets, TLC

VARIABLES
    \* ---- MultipleSnowflakeSQLResponse (multiple.rs:217-228)
    statement_handles,   \* response.statement_handles: the pending handles
    issued,              \* history: the handles the submission returned
    cpc,                 \* position inside complete(): "idle" | "polling"
    idx,                 \* loop index i of complete(), 1-based
    to_remove_index,     \* complete(): positions to drop
    statements,          \* complete(): the entries it returns
    polls,               \* history: the responses of the polls of this round
    before,              \* history: statement_handles when the round began
    rounds,              \* history: has a complete() call returned
    \* ---- MultipleSnowflakeSQL builder (multiple.rs:28-39, 112-121)
    bphase,              \* "building" | "single" | "multiple" | "submitted" |
                         \* "failed_request" | "failed_decode" | "panicked" | "off"
    statement,           \* data.statement: the pushed texts
    additional_statements_count,
    logical,             \* history: add_sql calls + sum of add_multiple_sql counts
    last_op,             \* history: the last builder call
    request,             \* the Request body POSTed by run()
    concatenated_statement,
    single_statement,    \* the text finish_sql hands to a Single statement
    run_response,        \* history: what the service answered to run()
    \* ---- SnowflakeSQL::select (snowflake-deserializer lib.rs:223-257)
    sel_pc,              \* "built" | "sent" | "done" | "off"
    sel_response,        \* the response of the POST
    sel_result,          \* what select returned
    \* ---- PendingQuery::select (src/lib.rs:108-174)
    pq_pc,               \* "built" | "posted" | "fetch" | "await" | "merged" | "done" | "off"
    result,              \* the SnowflakeSqlResponse being assembled
    index,               \* loop index of fetch_and_merge_partitions
    requests,            \* history: partition indices requested, in order
    inflight,            \* partition requests sent and not yet answered
    served,              \* history: the data of each partition the service returned
    initial,             \* history: the data of the initial response
    res,                 \* the answer to the latest partition GET
    posts,               \* history: statement POSTs sent
    pq_ret,              \* what select handed to the decoder / returned
    \* ---- the derived SnowflakeDeserialize::snowflake_deserialize
    \*      (snowflake_connector_derive lib.rs:132-151)
    dec_pc,              \* "decoding" | "returned" | "panicked" | "off"
    response,            \* the SnowflakeSQLResponse: num_rows and data
    row,                 \* position of `for data in response.data`, 1-based
    field,               \* the field initialiser evaluated next, 1-based
    record,              \* the field values of the record under construction
    results,             \* the Vec of finished records
    decoded,             \* history: the cells handed to a decoder, in order
    dec_ret,             \* what snowflake_deserialize returned
    \* ---- a statement through select or lazy_select and the continuation
    \*      an in-progress answer yields (lib.rs:223-257, 436-461;
    \*      lazy.rs:10-25, 50-130)
    api,                 \* "select" | "lazy_select" | "off"
    st_pc,               \* "built" | "response" | "status" | "done" | "off"
    st_response,         \* LazySnowflakeSQLResult.response
    continuation,        \* the SnowflakeQueryStatus / LazySnowflakeRetrySQLResult held
    sent,                \* history: the requests sent, in order
    outcome,             \* history: what the latest call returned
    calls,               \* history: retry() and cancel() calls made
    cancel_response,     \* history: the answer to the latest cancel()
    \* ---- calls on a held MultipleSnowflakeSQLResponse that only read it
    \*      (multiple.rs:231-298)
    ret,                 \* what the latest call returned
    \* ---- SnowflakeSQL::add_binding (lib.rs:282-296, bindings.rs)
    bind_pc,             \* "building" | "panicked" | "off"
    bindings,            \* statement.bindings: None or the map
    added,               \* history: the values handed to add_binding
    \* ---- LazyRows / LazyRow (lazy.rs:139-199)
    lz_pc,               \* "parsed" | "panicked" | "off"
    lazy_rows,           \* LazyRows.rows: the names of rowType and data
    name_index_map,      \* LazyRows.name_index_map: name -> 0-based index
    access,              \* the latest access and what it returned
    \* ---- DeserializeFromStr of a nullable cell (snowflake-deserialize
    \*      lib.rs:92-136, datetime.rs)
    cell_pc,             \* "cell" | "decoded" | "off"
    cell,                \* Option<&str>: the cell handed to the decoder
    cell_type,           \* the type the cell is decoded as
    cell_result          \* what deserialize_from_str returned

drainVars == <<statement_handles, issued, cpc, idx, to_remove_index, statements,
               polls, before, rounds>>
buildVars == <<bphase, statement, additional_statements_count, logical, last_op,
               request, concatenated_statement, single_statement, run_response>>
selVars == <<sel_pc, sel_response, sel_result>>
pqVars == <<pq_pc, result, index, requests, inflight, served, initial, res, posts,
           pq_ret>>
decVars == <<dec_pc, response, row, field, record, results, decoded, dec_ret>>
stVars == <<api, st_pc, st_response, continuation, sent, outcome, calls,
           cancel_response>>
accVars == <<ret>>
bindVars == <<bind_pc, bindings, added>>
lazyVars == <<lz_pc, lazy_rows, name_index_map, access>>
cellVars == <<cell_pc, cell, cell_type, cell_result>>
vars == <<drainVars, buildVars, selVars, pqVars, decVars, stVars, accVars, bindVars,
          lazyVars, cellVars>>

----------------------------------------------------------------------------
\* Bounds of the model

\* handles a submission may return
MaxHandles == 3
\* texts pushed into one batch
MaxPush == 3
\* largest count given to add_multiple_sql
MaxCount == 3
\* partitions a response may declare
MaxPartitions == 3
\* largest rowCount a partitionInfo entry declares
MaxRows == 2

----------------------------------------------------------------------------
\* HTTP status codes the code names (reqwest::StatusCode)

OK == 200
ACCEPTED == 202
REQUEST_TIMEOUT == 408
UNPROCESSABLE_ENTITY == 422
TOO_MANY_REQUESTS == 429
SERVICE_UNAVAILABLE == 503
GATEWAY_TIMEOUT == 504

\* status codes the code does not name (a 2xx, a 4xx and a 5xx one)
OtherStatuses == {204, 404, 500}

NamedStatuses == {OK, ACCEPTED, REQUEST_TIMEOUT, UNPROCESSABLE_ENTITY,
                  TOO_MANY_REQUESTS, SERVICE_UNAVAILABLE, GATEWAY_TIMEOUT}

----------------------------------------------------------------------------
\* JSON bodies, by the fields they carry. serde accepts a body for a struct
\* when every non-Option field of the struct is present; unknown fields are
\* ignored.

QueryFailureStatusFields == {"code", "sqlState", "message", "statementHandle"}

QueryStatusFields == {"code", "sqlState", "message", "statementHandle",
                      "createdOn", "statementStatusUrl"}

SnowflakeSQLResponseFields == {"resultSetMetaData", "data", "code",
                               "statementStatusUrl", "requestId", "sqlState",
                               "message"}

ParsesAs(body, fields) == fields \subseteq body.fields

\* the bodies the service sends: a result set, a query status, a failure
\* status without the optional timing fields, and a body of no known shape
ResultFields == SnowflakeSQLResponseFields \cup {"statementHandle", "createdOn"}
StatusFields == QueryStatusFields
FailureFields == QueryFailureStatusFields
GarbageFields == {}

HandleNames == <<"h1", "h2", "h3", "h4", "h5">>

Body(fields, handle, decodes) ==
    [fields |-> fields, handle |-> handle, decodes |-> decodes]

\* a response that arrived (Ok) and a transport error (Err), which may carry
\* a status (reqwest::Error::status)
OkResponse(status, body) ==
    [kind |-> "ok", has_status |-> TRUE, status |-> status, body |-> body]

ErrResponse(has_status, status) ==
    [kind |-> "err", has_status |-> has_status, status |-> status,
     body |-> Body(GarbageFields, "h1", FALSE)]

----------------------------------------------------------------------------
\* MultipleSnowflakeSQLResponse: statement_status and complete()

IsRateLimitMutant(status) == status \in {TOO_MANY_REQUESTS, SERVICE_UNAVAILABLE}

IsRateLimit(status) ==
    status \in {TOO_MANY_REQUESTS, SERVICE_UNAVAILABLE, GATEWAY_TIMEOUT}

IsInProgress(status) == status \in {REQUEST_TIMEOUT, ACCEPTED}

EntryMutant(ok, tag, handle, status) ==
    [ok |-> ok, tag |-> tag, handle |-> "h1", status |-> status]

Entry(ok, tag, handle, status) ==
    [ok |-> ok, tag |-> tag, handle |-> handle, status |-> status]

\* statement_status(statement_handle) on the response r of its GET
statement_status(statement_handle, r) ==
    IF r.kind = "ok"
    THEN CASE r.status = OK ->
                Entry(TRUE, "Parse", statement_handle, r.status)
           [] r.status = UNPROCESSABLE_ENTITY ->
                IF ParsesAs(r.body, QueryFailureStatusFields)
                THEN Entry(FALSE, "Query", r.body.handle, r.status)
                ELSE Entry(FALSE, "Decode", statement_handle, r.status)
           [] IsInProgress(r.status) ->
                IF ParsesAs(r.body, QueryStatusFields)
                THEN Entry(TRUE, "Status", r.body.handle, r.status)
                ELSE Entry(FALSE, "Decode", statement_handle, r.status)
           [] IsRateLimit(r.status) ->
                Entry(FALSE, "TooManyRequests", statement_handle, r.status)
           [] OTHER ->
                Entry(FALSE, "Unknown", statement_handle, r.status)
    ELSE IF r.has_status
         THEN Entry(FALSE, "Unknown", statement_handle, r.status)
         ELSE Entry(FALSE, "UnknownResponse", statement_handle, 0)

RemovesStatusMutant(entry) == entry.tag # "TooManyRequests"

RemovesDecodeMutant(entry) ==
    IF entry.ok
    THEN entry.tag = "Parse"
    ELSE entry.tag \in {"Query", "Unknown"}

RemovesMutant(entry) == entry.tag \notin {"Status", "TooManyRequests", "Unknown"}

\* the arms of complete() that insert i into to_remove_index
Removes(entry) ==
    IF entry.ok
    THEN entry.tag = "Parse"
    ELSE entry.tag # "TooManyRequests"

RetainMutant(handles, remove) ==
    [i \in 1..Len(handles) |-> handles[Len(handles) + 1 - i]]

RECURSIVE RetainFrom(_, _, _)
RetainFrom(handles, remove, i) ==
    IF i > Len(handles)
    THEN <<>>
    ELSE IF i \in remove
         THEN RetainFrom(handles, remove, i + 1)
         ELSE <<handles[i]>> \o RetainFrom(handles, remove, i + 1)

\* statement_handles.retain(|_| !to_remove_index.contains(&index++))
Retain(handles, remove) == RetainFrom(handles, remove, 1)

\* the responses a status poll of handle h may get. The body is drawn for the
\* statuses whose arm reads it: one that decodes into the struct of the arm
\* and one that does not.
PollResponses(h) ==
    {OkResponse(OK, Body(ResultFields, h, TRUE)),
     OkResponse(ACCEPTED, Body(StatusFields, h, TRUE)),
     OkResponse(ACCEPTED, Body(GarbageFields, h, FALSE)),
     OkResponse(REQUEST_TIMEOUT, Body(StatusFields, h, TRUE)),
     OkResponse(REQUEST_TIMEOUT, Body(FailureFields, h, TRUE)),
     OkResponse(UNPROCESSABLE_ENTITY, Body(FailureFields, h, TRUE)),
     OkResponse(UNPROCESSABLE_ENTITY, Body(GarbageFields, h, FALSE))}
    \cup {OkResponse(s, Body(GarbageFields, h, FALSE)) :
            s \in {TOO_MANY_REQUESTS, SERVICE_UNAVAILABLE, GATEWAY_TIMEOUT, 500}}
    \cup {ErrResponse(FALSE, 0), ErrResponse(TRUE, 500)}

\* the handle lists a submission returns: distinct handles
IssuedLists == {SubSeq(HandleNames, 1, n) : n \in 0..MaxHandles}

\* complete() is entered: the two buffers are allocated
CompleteBegin ==
    /\ cpc = "idle"
    /\ cpc' = "polling"
    /\ idx' = 1
    /\ to_remove_index' = {}
    /\ statements' = <<>>
    /\ polls' = <<>>
    /\ before' = statement_handles
    /\ UNCHANGED <<statement_handles, issued, rounds>>

\* one iteration of the loop: statement_status(handle).await and its match
PollWith(r) ==
    /\ cpc = "polling"
    /\ idx <= Len(statement_handles)
    /\ LET e == statement_status(statement_handles[idx], r)
       IN /\ statements' = Append(statements, e)
          /\ to_remove_index' = IF Removes(e)
                                THEN to_remove_index \cup {idx}
                                ELSE to_remove_index
    /\ polls' = Append(polls, r)
    /\ idx' = idx + 1
    /\ UNCHANGED <<statement_handles, issued, cpc, before, rounds>>

PollStatus ==
    /\ cpc = "polling"
    /\ idx <= Len(statement_handles)
    /\ \E r \in PollResponses(statement_handles[idx]) : PollWith(r)

\* after the loop: retain, and the entries are returned
CompleteEnd ==
    /\ cpc = "polling"
    /\ idx > Len(statement_handles)
    /\ statement_handles' = Retain(statement_handles, to_remove_index)
    /\ cpc' = "idle"
    /\ rounds' = TRUE
    /\ UNCHANGED <<issued, idx, to_remove_index, statements, polls, before>>

AreAllCompleteMutant == Len(issued) = 0

\* are_all_complete()
are_all_complete == Len(statement_handles) = 0

\* unfinished_statements()
unfinished_statements == statement_handles

BuildOff ==
    /\ bphase = "off"
    /\ statement = <<>>
    /\ additional_statements_count = 0
    /\ logical = 0
    /\ last_op = "none"
    /\ request = [sent |-> FALSE, statement |-> "", statement_count |-> 0]
    /\ concatenated_statement = ""
    /\ single_statement = ""
    /\ run_response = [kind |-> "none", has_handles |-> FALSE, handles |-> <<>>]

SelectOff ==
    /\ sel_pc = "off"
    /\ sel_response = ErrResponse(FALSE, 0)
    /\ sel_result = [ok |-> FALSE, tag |-> "none", handle |-> "", status |-> 0]

PartitionOff ==
    /\ pq_pc = "off"
    /\ result = [partition_info |-> <<>>, data |-> <<>>]
    /\ index = 1
    /\ requests = <<>>
    /\ inflight = {}
    /\ served = <<>>
    /\ initial = <<>>
    /\ res = [kind |-> "none", status |-> 0, fields |-> {}]
    /\ posts = 0
    /\ pq_ret = [tag |-> "none", data |-> <<>>]

NoReturn == [tag |-> "none", data |-> <<>>, variant |-> "", actual_value |-> "",
             error |-> ""]

DecodeOff ==
    /\ dec_pc = "off"
    /\ response = [num_rows |-> 0, data |-> <<>>]
    /\ row = 1
    /\ field = 1
    /\ record = <<>>
    /\ results = <<>>
    /\ decoded = <<>>
    /\ dec_ret = NoReturn

NoContinuation == [kind |-> "none", statement_handle |-> ""]

StatementOff ==
    /\ api = "off"
    /\ st_pc = "off"
    /\ st_response = ErrResponse(FALSE, 0)
    /\ continuation = NoContinuation
    /\ sent = <<>>
    /\ outcome = "none"
    /\ calls = 0
    /\ cancel_response = ErrResponse(FALSE, 0)

Returns(call, statement_handle, r, entry, flag, list) ==
    [call |-> call, statement_handle |-> statement_handle, response |-> r,
     entry |-> entry, flag |-> flag, list |-> list]

NoCall == Returns("none", "", ErrResponse(FALSE, 0),
                  Entry(FALSE, "none", "", 0), FALSE, <<>>)

AccessOff == ret = NoCall

BindOff ==
    /\ bind_pc = "off"
    /\ bindings = [is_some |-> FALSE, map |-> <<>>]
    /\ added = <<>>

NoAccess == [call |-> "none", row |-> 0, name |-> "", index |-> 0,
             kind |-> "none", value |-> 0]

LazyOff ==
    /\ lz_pc = "off"
    /\ lazy_rows = [row_type |-> <<>>, data |-> <<>>]
    /\ name_index_map = <<>>
    /\ access = NoAccess

NoResult == [ok |-> FALSE, value |-> 0, error |-> ""]

CellOff ==
    /\ cell_pc = "off"
    /\ cell = [some |-> FALSE, value |-> ""]
    /\ cell_type = ""
    /\ cell_result = NoResult

DrainOff ==
    /\ statement_handles = <<>>
    /\ issued = <<>>
    /\ cpc = "off"
    /\ idx = 1
    /\ to_remove_index = {}
    /\ statements = <<>>
    /\ polls = <<>>
    /\ before = <<>>
    /\ rounds = FALSE

\* the response object as run() constructs it
Init ==
    /\ issued \in IssuedLists
    /\ statement_handles = issued
    /\ cpc = "idle"
    /\ idx = 1
    /\ to_remove_index = {}
    /\ statements = <<>>
    /\ polls = <<>>
    /\ before = <<>>
    /\ rounds = FALSE
    /\ BuildOff
    /\ SelectOff
    /\ PartitionOff
    /\ DecodeOff
    /\ StatementOff
    /\ AccessOff
    /\ BindOff
    /\ LazyOff
    /\ CellOff

BeginStep == CompleteBegin /\ UNCHANGED <<buildVars, selVars, pqVars, decVars, stVars, accVars, bindVars,
                 lazyVars, cellVars>>

PollStep == PollStatus /\ UNCHANGED <<buildVars, selVars, pqVars, decVars, stVars, accVars, bindVars,
                 lazyVars, cellVars>>

EndStep == CompleteEnd /\ UNCHANGED <<buildVars, selVars, pqVars, decVars, stVars, accVars, bindVars,
                 lazyVars, cellVars>>

Next ==
    \/ BeginStep
    \/ PollStep
    \/ EndStep

Spec == Init /\ [][Next]_vars

\* a poll of handle h that the service answers with a terminal outcome
TerminalAnswer(r) ==
    /\ r.kind = "ok"
    /\ \/ r.status = 200
       \/ r.status = 422
       \/ r.status \notin NamedStatuses

PollTerminal(h) ==
    /\ cpc = "polling"
    /\ idx <= Len(statement_handles)
    /\ statement_handles[idx] = h
    /\ \E r \in PollResponses(h) : TerminalAnswer(r) /\ PollWith(r)
    /\ UNCHANGED <<buildVars, selVars, pqVars, decVars, stVars, accVars, bindVars,
                 lazyVars, cellVars>>

\* the caller keeps calling complete(), every request returns, and every
\* statement eventually answers a poll with a terminal outcome
LiveSpec ==
    /\ Spec
    /\ WF_vars(BeginStep)
    /\ WF_vars(PollStep)
    /\ WF_vars(EndStep)
    /\ \A k \in 1..Len(HandleNames) : SF_vars(PollTerminal(HandleNames[k]))

----------------------------------------------------------------------------
\* Claims about complete()

Range(s) == {s[i] : i \in 1..Len(s)}

RECURSIVE IsSubSeq(_, _)
IsSubSeq(s, t) ==
    IF s = <<>>
    THEN TRUE
    ELSE IF t = <<>>
         THEN FALSE
         ELSE IF Head(s) = Head(t)
              THEN IsSubSeq(Tail(s), Tail(t))
              ELSE IsSubSeq(s, Tail(t))

\* a complete() call has returned and none is running
Returned == cpc = "idle" /\ rounds

RateLimited(r) == r.kind = "ok" /\ r.status \in {429, 503, 504}

\* C2: when complete() returns, every handle whose poll was answered 429,
\* 503 or 504 is still pending, and the pending list keeps the order it had
\* when the round began, so the handle is at its place.
C2_RateLimitedStaysPending ==
    Returned =>
        \A i \in 1..Len(polls) :
            RateLimited(polls[i]) =>
                /\ before[i] \in Range(statement_handles)
                /\ IsSubSeq(statement_handles, before)

C2_Witness ==
    /\ Returned
    /\ Len(before) = 3
    /\ polls[1].kind = "ok" /\ polls[1].status = 200
    /\ polls[2].kind = "ok" /\ polls[2].status = 504
    /\ polls[3].kind = "ok" /\ polls[3].status = 422
    /\ statement_handles = <<before[2]>>

\* C3: when complete() returns, every handle whose poll ended in a parsed
\* success (200), a terminal service failure (422) or an unknown status code
\* is no longer pending.
C3_TerminalRemoved ==
    Returned =>
        \A i \in 1..Len(polls) :
            (\/ polls[i].kind = "ok" /\ polls[i].status = 200
             \/ polls[i].kind = "ok" /\ polls[i].status = 422
             \/ polls[i].kind = "ok" /\ polls[i].status \notin NamedStatuses
             \/ polls[i].kind = "err" /\ polls[i].has_status)
            => before[i] \notin Range(statement_handles)

C3_Witness ==
    /\ Returned
    /\ Len(before) = 3
    /\ polls[1].kind = "ok" /\ polls[1].status = 500
    /\ polls[2].kind = "ok" /\ polls[2].status = 422
    /\ polls[3].kind = "ok" /\ polls[3].status = 200
    /\ statement_handles = <<>>

\* C4: the pending list is always a sub-sequence of the list the submission
\* returned, every step leaves a sub-sequence of the list before it (so no
\* handle is added and a removed handle never comes back), and complete()
\* can be entered whenever no call is running, also on an empty list.
C4_PendingOnlyShrinks ==
    /\ [](IsSubSeq(statement_handles, issued))
    /\ [][/\ IsSubSeq(statement_handles', statement_handles)
          /\ Range(statement_handles') \subseteq Range(statement_handles)]_vars
    /\ [](cpc = "idle" => ENABLED BeginStep)

\* complete() running on a list that earlier rounds emptied
C4_Witness ==
    /\ cpc = "polling"
    /\ rounds
    /\ before = <<>>
    /\ Len(issued) >= 2

\* C5: with a caller that keeps calling complete() and statements that
\* eventually answer with a terminal outcome, are_all_complete() becomes
\* true, and once true it stays true.
C5_EventuallyAllComplete ==
    /\ <>are_all_complete
    /\ [][are_all_complete => are_all_complete']_vars

C5_Witness ==
    /\ Returned
    /\ are_all_complete
    /\ Len(issued) = MaxHandles
    /\ Len(before) = 1

OnlyFinalOrRateLimited ==
    \A i \in 1..Len(polls) :
        polls[i].kind = "ok" /\ polls[i].status \in {200, 422, 429, 503, 504}

EntriesFor(h) == {i \in 1..Len(statements) : statements[i].handle = h}

----------------------------------------------------------------------------
\* MultipleSnowflakeSQL: building, finishing and submitting a batch

Texts == {"A;", "B;", "C;"}

AdditionalAfterMutant(additional, count) == additional + count

\* additional_statements_count += count.get() - 1
AdditionalAfter(additional, count) == additional + (count - 1)

\* MultipleSnowflakeSQLData::add_sql
add_sql(sql) ==
    /\ bphase = "building"
    /\ Len(statement) < MaxPush
    /\ statement' = Append(statement, sql)
    /\ logical' = logical + 1
    /\ last_op' = "add_sql"
    /\ UNCHANGED <<bphase, additional_statements_count, request,
                   concatenated_statement, single_statement, run_response>>

\* MultipleSnowflakeSQLData::add_multiple_sql
add_multiple_sql(count, sql) ==
    /\ bphase = "building"
    /\ Len(statement) < MaxPush
    /\ additional_statements_count' =
           AdditionalAfter(additional_statements_count, count)
    /\ statement' = Append(statement, sql)
    /\ logical' = logical + count
    /\ last_op' = "add_multiple_sql"
    /\ UNCHANGED <<bphase, request, concatenated_statement, single_statement,
                   run_response>>

StatementCountMutant(texts, additional) == Len(texts)

\* statement.len() + additional_statements_count
StatementCount(texts, additional) == Len(texts) + additional

RECURSIVE JoinMutant(_)
JoinMutant(texts) ==
    IF texts = <<>> THEN "" ELSE Head(texts) \o JoinMutant(Tail(texts))

RECURSIVE Join(_)
\* statement.join(" ")
Join(texts) ==
    IF Len(texts) = 0
    THEN ""
    ELSE IF Len(texts) = 1
         THEN texts[1]
         ELSE texts[1] \o " " \o Join(Tail(texts))

\* finish_sql: a total of one gives a Single statement built from the popped
\* text (pop().unwrap() panics on an empty list), any other total a Multiple
finish_sql ==
    /\ bphase = "building"
    /\ last_op' = "finish_sql"
    /\ IF StatementCount(statement, additional_statements_count) = 1
       THEN IF Len(statement) = 0
            THEN /\ bphase' = "panicked"
                 /\ UNCHANGED <<statement, single_statement>>
            ELSE /\ bphase' = "single"
                 /\ single_statement' = statement[Len(statement)]
                 /\ statement' = SubSeq(statement, 1, Len(statement) - 1)
       ELSE /\ bphase' = "multiple"
            /\ UNCHANGED <<statement, single_statement>>
    /\ UNCHANGED <<additional_statements_count, logical, request,
                   concatenated_statement, run_response>>

\* what the service may answer to the POST of run(): a transport error, a
\* body without statementHandles, or a body listing handles. run() reads
\* neither the status nor the number of handles, so the list is any list.
RunResponses ==
    {[kind |-> "err", has_handles |-> FALSE, handles |-> <<>>],
     [kind |-> "ok", has_handles |-> FALSE, handles |-> <<>>]}
    \cup {[kind |-> "ok", has_handles |-> TRUE, handles |-> l] : l \in IssuedLists}

AcceptedHandlesMutant(r) ==
    IF Len(r.handles) = 0 THEN r.handles ELSE Tail(r.handles)

\* the statement_handles of the MultipleSQLResponse decoded from the body
AcceptedHandles(r) == r.handles

\* run(): get_statement, the POST, and the response object on success
run ==
    /\ bphase = "multiple"
    /\ last_op' = "run"
    /\ request' = [sent |-> TRUE,
                   statement |-> Join(statement),
                   statement_count |->
                       StatementCount(statement, additional_statements_count)]
    /\ \E r \in RunResponses :
        /\ run_response' = r
        /\ IF r.kind = "err"
           THEN /\ bphase' = "failed_request"
                /\ UNCHANGED <<statement_handles, issued, concatenated_statement>>
           ELSE IF ~r.has_handles
                THEN /\ bphase' = "failed_decode"
                     /\ UNCHANGED <<statement_handles, issued,
                                    concatenated_statement>>
                ELSE /\ bphase' = "submitted"
                     /\ statement_handles' = AcceptedHandles(r)
                     /\ issued' = r.handles
                     /\ concatenated_statement' = Join(statement)
    /\ UNCHANGED <<statement, additional_statements_count, logical,
                   single_statement>>
    /\ UNCHANGED <<cpc, idx, to_remove_index, statements, polls, before, rounds>>

\* multiple_statements(): an empty builder. The drain of the response that
\* run() returns is Spec.
BuildInit ==
    /\ DrainOff
    /\ bphase = "building"
    /\ statement = <<>>
    /\ additional_statements_count = 0
    /\ logical = 0
    /\ last_op = "none"
    /\ request = [sent |-> FALSE, statement |-> "", statement_count |-> 0]
    /\ concatenated_statement = ""
    /\ single_statement = ""
    /\ run_response = [kind |-> "none", has_handles |-> FALSE, handles |-> <<>>]
    /\ SelectOff
    /\ PartitionOff
    /\ DecodeOff
    /\ StatementOff
    /\ AccessOff
    /\ BindOff
    /\ LazyOff
    /\ CellOff

AddSqlStep ==
    /\ \E sql \in Texts : add_sql(sql)
    /\ UNCHANGED <<drainVars, selVars, pqVars, decVars, stVars, accVars, bindVars,
                 lazyVars, cellVars>>

AddMultipleSqlStep ==
    /\ \E count \in 1..MaxCount, sql \in Texts : add_multiple_sql(count, sql)
    /\ UNCHANGED <<drainVars, selVars, pqVars, decVars, stVars, accVars, bindVars,
                 lazyVars, cellVars>>

FinishSqlStep == finish_sql /\ UNCHANGED <<drainVars, selVars, pqVars, decVars, stVars, accVars, bindVars,
                 lazyVars, cellVars>>

RunStep == run /\ UNCHANGED <<selVars, pqVars, decVars, stVars, accVars, bindVars,
                 lazyVars, cellVars>>

BuildNext ==
    \/ AddSqlStep
    \/ AddMultipleSqlStep
    \/ FinishSqlStep
    \/ RunStep

BuildSpec == BuildInit /\ [][BuildNext]_vars

\* C7: the MULTI_STATEMENT_COUNT sent equals statements.len() +
\* additional_statements_count, which equals the number of add_sql calls plus
\* the sum of the add_multiple_sql counts; add_sql pushes exactly one text and
\* leaves additional_statements_count unchanged.
C7_StatementCount ==
    /\ [](bphase \in {"building", "multiple", "submitted", "failed_request",
                      "failed_decode"}
            => Len(statement) + additional_statements_count = logical)
    /\ [](request.sent =>
            /\ request.statement_count = Len(statement) + additional_statements_count
            /\ request.statement_count = logical)
    /\ [][(last_op' = "add_sql" /\ statement' # statement) =>
            /\ Len(statement') = Len(statement) + 1
            /\ SubSeq(statement', 1, Len(statement)) = statement
            /\ additional_statements_count' = additional_statements_count]_vars

\* [A, B x3, C]: single-add, multi-add(3), single-add, submitted with count 5
C7_Witness ==
    /\ request.sent
    /\ Len(statement) = 3
    /\ additional_statements_count = 2
    /\ request.statement_count = 5

\* C8 as stated: after a successful run() of a batch (of at least one pushed
\* text) the pending set holds exactly as many handles as the batch has
\* logical statements.
C8_Original ==
    (bphase = "submitted" /\ Len(statement) >= 1) =>
        Len(statement_handles) = Len(statement) + additional_statements_count

\* C8 amended: after a successful run() the pending set is the list of
\* handles of the service's response, in the order of the response.
C8_Amended ==
    bphase = "submitted" =>
        /\ run_response.has_handles
        /\ statement_handles = run_response.handles

C8_Witness ==
    /\ bphase = "submitted"
    /\ Len(statement) = 2
    /\ additional_statements_count = 1
    /\ statement_handles = <<"h1", "h2", "h3">>

----------------------------------------------------------------------------
\* SnowflakeSQL::select (snowflake-deserializer)

SelectInProgressMutant(status) == status = ACCEPTED

\* the arm REQUEST_TIMEOUT | ACCEPTED of select
SelectInProgress(status) == status \in {REQUEST_TIMEOUT, ACCEPTED}

SelectResult(ok, tag, handle, status) ==
    [ok |-> ok, tag |-> tag, handle |-> handle, status |-> status]

\* select on the response r of its POST. A body that decodes as a
\* SnowflakeSQLResponse is then deserialized into rows (body.decodes).
select(r) ==
    IF r.kind = "err"
    THEN SelectResult(FALSE, "Request", "", 0)
    ELSE CASE r.status = OK ->
                IF ParsesAs(r.body, SnowflakeSQLResponseFields)
                THEN IF r.body.decodes
                     THEN SelectResult(TRUE, "Result", "", r.status)
                     ELSE SelectResult(FALSE, "Deserialize", "", r.status)
                ELSE SelectResult(FALSE, "Decode", "", r.status)
           [] SelectInProgress(r.status) ->
                IF ParsesAs(r.body, QueryStatusFields)
                THEN SelectResult(TRUE, "Status", r.body.handle, r.status)
                ELSE SelectResult(FALSE, "Decode", "", r.status)
           [] r.status = UNPROCESSABLE_ENTITY ->
                IF ParsesAs(r.body, QueryFailureStatusFields)
                THEN SelectResult(FALSE, "Query", r.body.handle, r.status)
                ELSE SelectResult(FALSE, "Decode", "", r.status)
           [] OTHER ->
                SelectResult(FALSE, "Unknown", "", r.status)

SelectBodies ==
    {Body(ResultFields, h, d) : h \in {"h1", "h2"}, d \in BOOLEAN}
    \cup {Body(f, h, FALSE) : f \in {StatusFields, FailureFields}, h \in {"h1", "h2"}}
    \cup {Body(GarbageFields, "h1", FALSE)}

SelectResponses ==
    {OkResponse(s, b) : s \in NamedStatuses \cup OtherStatuses, b \in SelectBodies}
    \cup {ErrResponse(FALSE, 0)}

\* the POST is sent and awaited
SendStatement ==
    /\ sel_pc = "built"
    /\ \E r \in SelectResponses : sel_response' = r
    /\ sel_pc' = "sent"
    /\ UNCHANGED sel_result

\* the response is classified and select returns
SelectReturn ==
    /\ sel_pc = "sent"
    /\ sel_result' = select(sel_response)
    /\ sel_pc' = "done"
    /\ UNCHANGED sel_response

SelectInit ==
    /\ DrainOff
    /\ BuildOff
    /\ sel_pc = "built"
    /\ sel_response = ErrResponse(FALSE, 0)
    /\ sel_result = [ok |-> FALSE, tag |-> "none", handle |-> "", status |-> 0]
    /\ PartitionOff
    /\ DecodeOff
    /\ StatementOff
    /\ AccessOff
    /\ BindOff
    /\ LazyOff
    /\ CellOff

SendStatementStep == SendStatement /\ UNCHANGED <<drainVars, buildVars, pqVars, decVars, stVars, accVars, bindVars,
                 lazyVars, cellVars>>

SelectReturnStep == SelectReturn /\ UNCHANGED <<drainVars, buildVars, pqVars, decVars, stVars, accVars, bindVars,
                 lazyVars, cellVars>>

SelectNext ==
    \/ SendStatementStep
    \/ SelectReturnStep

SelectSpec == SelectInit /\ [][SelectNext]_vars

Answered == sel_pc = "done" /\ sel_response.kind = "ok"

\* C1 as stated: the outcome of select is decided by the status alone: 200
\* a completed result, 202 / 408 an in-progress status with the handle, 422
\* a query-failure error, any other status an Unknown error with the status.
C1_Original ==
    Answered =>
        CASE sel_response.status = 200 ->
                sel_result.ok /\ sel_result.tag = "Result"
          [] sel_response.status \in {202, 408} ->
                /\ sel_result.ok
                /\ sel_result.tag = "Status"
                /\ sel_result.handle = sel_response.body.handle
          [] sel_response.status = 422 ->
                /\ ~sel_result.ok
                /\ sel_result.tag = "Query"
                /\ sel_result.handle = sel_response.body.handle
          [] OTHER ->
                /\ ~sel_result.ok
                /\ sel_result.tag = "Unknown"
                /\ sel_result.status = sel_response.status

BodyHas(fields) == fields \subseteq sel_response.body.fields

\* C1 amended: the status alone selects the arm; inside the 200, 202 / 408
\* and 422 arms the stated outcome is returned when the body decodes as the
\* arm's shape (and, for 200, the rows deserialize), and a Decode (or
\* Deserialize) error otherwise; any other status gives Unknown with the
\* status, whatever the body.
C1_Amended ==
    Answered =>
        CASE sel_response.status = 200 ->
                IF BodyHas({"resultSetMetaData", "data", "code", "statementStatusUrl",
                            "requestId", "sqlState", "message"})
                THEN IF sel_response.body.decodes
                     THEN sel_result.ok /\ sel_result.tag = "Result"
                     ELSE ~sel_result.ok /\ sel_result.tag = "Deserialize"
                ELSE ~sel_result.ok /\ sel_result.tag = "Decode"
          [] sel_response.status \in {202, 408} ->
                IF BodyHas({"code", "sqlState", "message", "statementHandle",
                            "createdOn", "statementStatusUrl"})
                THEN /\ sel_result.ok
                     /\ sel_result.tag = "Status"
                     /\ sel_result.handle = sel_response.body.handle
                ELSE ~sel_result.ok /\ sel_result.tag = "Decode"
          [] sel_response.status = 422 ->
                IF BodyHas({"code", "sqlState", "message", "statementHandle"})
                THEN /\ ~sel_result.ok
                     /\ sel_result.tag = "Query"
                     /\ sel_result.handle = sel_response.body.handle
                ELSE ~sel_result.ok /\ sel_result.tag = "Decode"
          [] OTHER ->
                /\ ~sel_result.ok
                /\ sel_result.tag = "Unknown"
                /\ sel_result.status = sel_response.status

C1_Witness ==
    /\ Answered
    /\ sel_response.status = 408
    /\ sel_result.tag = "Status"
    /\ sel_result.handle = "h2"

----------------------------------------------------------------------------
\* PendingQuery::select and fetch_and_merge_partitions (src/lib.rs)

\* StatusCode::is_success
is_success(status) == 200 <= status /\ status < 300

\* the non-Option fields of SnowflakeSqlResponse and of its MetaData
SnowflakeSqlResponseFields == {"resultSetMetaData", "partitionInfo", "data", "code",
                               "statementStatusUrl", "requestId", "sqlState",
                               "message", "statementHandle"}

\* the non-Option fields of Partition
PartitionFields == {"data"}

\* has_partitions
has_partitions(r) == Len(r.partition_info) > 1

PartitionRangeMutant(len) == 0..(len - 1)

\* the range 1..partition_info.len() of the loop (its end is exclusive)
PartitionRange(len) == 1..(len - 1)

ExtendMutant(data, rows) == rows \o data

ExtendLastMutant(data, rows) == rows

UsableMutant(r, fields) == r.kind = "ok" /\ is_success(r.status)

\* result.data.extend(partition.data)
Extend(data, rows) == data \o rows

RowA == <<"3", "x">>
RowB == <<"4", "null">>

\* the data matrices the service sends
DataChoices == {<<>>, <<RowA>>, <<RowA, RowB>>, <<RowB, RowA>>}

\* the partitionInfo lists the service declares, by their rowCount
PartitionInfos ==
    UNION {[1..n -> 0..MaxRows] : n \in 0..MaxPartitions}

HttpResponse(kind, status, fields, partition_info, data) ==
    [kind |-> kind, status |-> status, fields |-> fields,
     partition_info |-> partition_info, data |-> data]

\* what the POST may be answered: a transport error, a non-2xx status, a 2xx
\* whose body is no result set, and a result set
PostResponses ==
    {HttpResponse("err", 0, {}, <<>>, <<>>),
     HttpResponse("ok", 500, {}, <<>>, <<>>),
     HttpResponse("ok", 422, QueryFailureStatusFields, <<>>, <<>>),
     HttpResponse("ok", 202, QueryStatusFields, <<>>, <<>>),
     HttpResponse("ok", 200, {}, <<>>, <<>>)}
    \cup {HttpResponse("ok", 200, SnowflakeSqlResponseFields \cup {"createdOn"}, p, d) :
            p \in PartitionInfos, d \in DataChoices}

\* what a partition GET may be answered
PartitionResponses ==
    {HttpResponse("err", 0, {}, <<>>, <<>>),
     HttpResponse("ok", 429, {}, <<>>, <<>>),
     HttpResponse("ok", 200, {}, <<>>, <<>>)}
    \cup {HttpResponse("ok", 200, PartitionFields, <<>>, d) : d \in DataChoices}

\* the response is usable: it arrived, is_success, and the body parses
Usable(r, fields) ==
    /\ r.kind = "ok"
    /\ is_success(r.status)
    /\ fields \subseteq r.fields

Least(S) == CHOOSE x \in S : \A y \in S : x <= y

\* select up to its first partition request: the POST, the status check, the
\* parse, has_partitions; without partitions the result goes to deserialize
PostQuery ==
    /\ pq_pc = "built"
    /\ \E r \in PostResponses :
        IF ~Usable(r, SnowflakeSqlResponseFields)
        THEN /\ pq_pc' = "done"
             /\ pq_ret' = [tag |-> "error", data |-> <<>>]
             /\ UNCHANGED <<result, initial, index>>
        ELSE /\ result' = [partition_info |-> r.partition_info, data |-> r.data]
             /\ initial' = r.data
             /\ IF has_partitions(result')
                THEN /\ pq_pc' = "fetch"
                     /\ index' = Least(PartitionRange(Len(r.partition_info)))
                     /\ UNCHANGED pq_ret
                ELSE /\ pq_pc' = "done"
                     /\ pq_ret' = [tag |-> "decoded", data |-> r.data]
                     /\ UNCHANGED index
    /\ posts' = posts + 1
    /\ UNCHANGED <<requests, inflight, served, res>>

\* the GET of partition `index` is sent
PartitionSend ==
    /\ pq_pc = "fetch"
    /\ requests' = Append(requests, index)
    /\ inflight' = inflight \cup {index}
    /\ pq_pc' = "await"
    /\ UNCHANGED <<result, index, served, initial, res, posts, pq_ret>>

\* its answer arrives: an unusable one aborts select, a partition is appended
\* and the loop goes on or, after the last index, the result is deserialized
PartitionReceive ==
    /\ pq_pc = "await"
    /\ inflight' = inflight \ {index}
    /\ \E r \in PartitionResponses :
        /\ res' = [kind |-> r.kind, status |-> r.status, fields |-> r.fields]
        /\ IF ~Usable(r, PartitionFields)
           THEN /\ pq_pc' = "done"
                /\ pq_ret' = [tag |-> "error", data |-> <<>>]
                /\ UNCHANGED <<result, index, served>>
           ELSE /\ result' = [result EXCEPT !.data = Extend(result.data, r.data)]
                /\ served' = Append(served, r.data)
                /\ IF index + 1 \in PartitionRange(Len(result.partition_info))
                   THEN /\ index' = index + 1
                        /\ pq_pc' = "fetch"
                        /\ UNCHANGED pq_ret
                   ELSE /\ pq_pc' = "done"
                        /\ pq_ret' = [tag |-> "decoded", data |-> result'.data]
                        /\ UNCHANGED index
    /\ UNCHANGED <<requests, initial, posts>>

PartitionInit ==
    /\ DrainOff
    /\ BuildOff
    /\ SelectOff
    /\ DecodeOff
    /\ StatementOff
    /\ AccessOff
    /\ BindOff
    /\ LazyOff
    /\ CellOff
    /\ pq_pc = "built"
    /\ result = [partition_info |-> <<>>, data |-> <<>>]
    /\ index = 1
    /\ requests = <<>>
    /\ inflight = {}
    /\ served = <<>>
    /\ initial = <<>>
    /\ res = [kind |-> "none", status |-> 0, fields |-> {}]
    /\ posts = 0
    /\ pq_ret = [tag |-> "none", data |-> <<>>]

PostQueryStep == PostQuery /\ UNCHANGED <<drainVars, buildVars, selVars, decVars, stVars, accVars, bindVars,
                 lazyVars, cellVars>>

PartitionSendStep == PartitionSend /\ UNCHANGED <<drainVars, buildVars, selVars, decVars, stVars, accVars, bindVars,
                 lazyVars, cellVars>>

PartitionReceiveStep == PartitionReceive /\ UNCHANGED <<drainVars, buildVars, selVars, decVars, stVars, accVars, bindVars,
                 lazyVars, cellVars>>

PartitionNext ==
    \/ PostQueryStep
    \/ PartitionSendStep
    \/ PartitionReceiveStep

PartitionSpec == PartitionInit /\ [][PartitionNext]_vars

Declared == Len(result.partition_info)

\* C9: at most one partition request is in flight; the requests issued so
\* far are 1, 2, 3, ... in ascending order without repetition and below the
\* declared number of partitions (so never partition 0, and none at all for
\* zero or one declared partition); when the result goes to the decoder the
\* requests were exactly 1 .. len-1.
C9_SequentialPartitionFetch ==
    /\ Cardinality(inflight) <= 1
    /\ \A i \in 1..Len(requests) : requests[i] = i /\ i < Declared
    /\ Declared <= 1 => requests = <<>>
    /\ (pq_ret.tag = "decoded" /\ Declared > 1) => Len(requests) = Declared - 1
    /\ pq_ret.tag = "decoded" => inflight = {}

C9_Witness ==
    /\ pq_ret.tag = "decoded"
    /\ Declared = 3
    /\ requests = <<1, 2>>

RECURSIVE Flatten(_)
Flatten(ss) == IF ss = <<>> THEN <<>> ELSE Head(ss) \o Flatten(Tail(ss))

\* C10: the data matrix handed to the decoder is the rows of the initial
\* response followed by the rows of partitions 1, 2, ..., n as the service
\* returned them.
C10_MergedInOrder ==
    pq_ret.tag = "decoded" =>
        /\ pq_ret.data = initial \o Flatten(served)
        /\ Len(served) = Len(requests)

C10_Witness ==
    /\ pq_ret.tag = "decoded"
    /\ initial = <<RowA, RowB>>
    /\ served = << <<RowB, RowA>>, <<RowA>> >>
    /\ pq_ret.data = <<RowA, RowB, RowB, RowA, RowA>>

RECURSIVE SumRowCount(_)
SumRowCount(partition_info) ==
    IF partition_info = <<>> THEN 0
    ELSE Head(partition_info) + SumRowCount(Tail(partition_info))

RECURSIVE SumLen(_)
SumLen(ss) == IF ss = <<>> THEN 0 ELSE Len(Head(ss)) + SumLen(Tail(ss))

Partitioned == pq_ret.tag = "decoded" /\ has_partitions(result)

\* every part arrived with as many rows as partitionInfo declared for it
RowCountsHonoured ==
    /\ Len(initial) = result.partition_info[1]
    /\ \A i \in 1..Len(served) : Len(served[i]) = result.partition_info[i + 1]

\* C11 as claimed: for every partitioned response select reads successfully,
\* the merged data matrix has sum(partitionInfo[i].rowCount) rows.
C11_Original ==
    Partitioned => Len(pq_ret.data) = SumRowCount(result.partition_info)

\* C11 amended: the merged data matrix has as many rows as the initial
\* response and the fetched partitions carried together; that is
\* sum(partitionInfo[i].rowCount) when every part arrived with the row count
\* declared for it, which select never compares.
C11_Amended ==
    Partitioned =>
        /\ Len(pq_ret.data) = Len(initial) + SumLen(served)
        /\ RowCountsHonoured =>
               Len(pq_ret.data) = SumRowCount(result.partition_info)

C11_Witness ==
    /\ Partitioned
    /\ result.partition_info = <<1, 2>>
    /\ initial = <<RowA>>
    /\ served = << <<RowA, RowB>> >>
    /\ Len(pq_ret.data) = 3

\* the answer to a partition GET is a failure: a transport error, a
\* non-success status, or a body that is no Partition
FetchFailed ==
    /\ pq_pc = "done"
    /\ requests # <<>>
    /\ \/ res.kind = "err"
       \/ res.status < 200
       \/ res.status >= 300
       \/ ~(PartitionFields \subseteq res.fields)

\* C12: when the fetch of a partition fails, select returns an error that
\* carries none of the rows accumulated so far, the failed request is the
\* last one it sent, and nothing further can be sent.
C12_PartitionFailureAborts ==
    FetchFailed =>
        /\ pq_ret = [tag |-> "error", data |-> <<>>]
        /\ Len(requests) = Len(served) + 1
        /\ inflight = {}
        /\ ~ENABLED PartitionSendStep

C12_Witness ==
    /\ FetchFailed
    /\ res.status = 429
    /\ initial = <<RowA, RowB>>
    /\ served = << <<RowA>> >>
    /\ requests = <<1, 2>>
    /\ pq_ret.tag = "error"

----------------------------------------------------------------------------
\* The derived decoder: SnowflakeDeserialize::snowflake_deserialize as
\* snowflake_connector_derive generates it, for the record
\*     struct { client_id: i64, name: Option<String> }

\* rows a response may hold
MaxDecodeRows == 2

\* data.named: the fields of the record, in declaration order
FieldNames == <<"client_id", "name">>

\* field.ty of each field
FieldTypes == <<"i64", "Option<String>">>

VariantMutant(name_str) ==
    CASE name_str = "client_id" -> "I64"
      [] name_str = "name" -> "String"

\* name_str.to_upper_camel_case(): the error variant of a field
to_upper_camel_case(name_str) ==
    CASE name_str = "client_id" -> "ClientId"
      [] name_str = "name" -> "Name"

Ok(value) == [ok |-> TRUE, value |-> value, error |-> ""]
Err(error) == [ok |-> FALSE, value |-> 0, error |-> error]

None == [some |-> FALSE, value |-> ""]
Some(value) == [some |-> TRUE, value |-> value]

\* the cell texts that are decimal integers, with their value
Integers64 == ("3" :> 3) @@ ("4" :> 4)

\* impl_deserialize_from_str!(i64): <i64>::from_str(value)
I64FromStr(value) ==
    IF value \in DOMAIN Integers64
    THEN Ok(Integers64[value])
    ELSE Err("ParseIntError")

\* impl_deserialize_from_str!(String): String::from_str never fails
StringFromStr(value) == Ok(value)

\* impl DeserializeFromStr for Option<T>, T = String
OptionStringFromStr(value) ==
    IF value = "NULL"
    THEN Ok(None)
    ELSE LET f == StringFromStr(value)
         IN IF f.ok THEN Ok(Some(f.value)) ELSE f

\* <#ty as DeserializeFromStr>::deserialize_from_str
deserialize_from_str(ty, value) ==
    CASE ty = "i64" -> I64FromStr(value)
      [] ty = "Option<String>" -> OptionStringFromStr(value)

\* the texts a cell may hold
CellTexts == {"3", "abc", "x", "NULL"}

\* the rows of response.data: Vec<String> of any length up to the record's
DecodeRows ==
    UNION {[1..n -> CellTexts] : n \in 0..Len(FieldNames)}

\* response.data: Vec<Vec<String>>
DataMatrices ==
    UNION {[1..n -> DecodeRows] : n \in 0..MaxDecodeRows}

DecodeError(variant, actual_value, error) ==
    [tag |-> "error", data |-> <<>>, variant |-> variant,
     actual_value |-> actual_value, error |-> error]

DecodeOkMutant(data) ==
    [tag |-> "ok",
     data |-> SubSeq(data, 1, IF response.num_rows < Len(data)
                              THEN response.num_rows ELSE Len(data)),
     variant |-> "", actual_value |-> "", error |-> ""]

DecodeOk(data) ==
    [tag |-> "ok", data |-> data, variant |-> "", actual_value |-> "",
     error |-> ""]

\* one field initialiser of the struct literal: data[i] is indexed (a panic
\* when the row is shorter), decoded, and a failure leaves the function
\* through `?`; after the last field the record is pushed
DecodeField ==
    /\ dec_pc = "decoding"
    /\ row <= Len(response.data)
    /\ LET data == response.data[row]
       IN IF field > Len(data)
          THEN /\ dec_pc' = "panicked"
               /\ UNCHANGED <<row, field, record, results, decoded, dec_ret>>
          ELSE LET r == deserialize_from_str(FieldTypes[field], data[field])
               IN /\ decoded' = Append(decoded, <<row, field>>)
                  /\ IF ~r.ok
                     THEN /\ dec_pc' = "returned"
                          /\ dec_ret' = DecodeError(
                                 to_upper_camel_case(FieldNames[field]),
                                 data[field], r.error)
                          /\ UNCHANGED <<row, field, record, results>>
                     ELSE /\ IF field = Len(FieldNames)
                             THEN /\ results' = Append(results,
                                                       Append(record, r.value))
                                  /\ record' = <<>>
                                  /\ row' = row + 1
                                  /\ field' = 1
                             ELSE /\ record' = Append(record, r.value)
                                  /\ field' = field + 1
                                  /\ UNCHANGED <<row, results>>
                          /\ UNCHANGED <<dec_pc, dec_ret>>
    /\ UNCHANGED response

\* after the loop: Ok(SnowflakeSQLResult { data: results })
DecodeReturn ==
    /\ dec_pc = "decoding"
    /\ row > Len(response.data)
    /\ dec_pc' = "returned"
    /\ dec_ret' = DecodeOk(results)
    /\ UNCHANGED <<response, row, field, record, results, decoded>>

\* snowflake_deserialize is entered with a parsed response
DecodeInit ==
    /\ DrainOff
    /\ BuildOff
    /\ SelectOff
    /\ PartitionOff
    /\ StatementOff
    /\ AccessOff
    /\ BindOff
    /\ LazyOff
    /\ CellOff
    /\ dec_pc = "decoding"
    /\ \E d \in DataMatrices, n \in 0..MaxDecodeRows :
          response = [num_rows |-> n, data |-> d]
    /\ row = 1
    /\ field = 1
    /\ record = <<>>
    /\ results = <<>>
    /\ decoded = <<>>
    /\ dec_ret = NoReturn

DecodeFieldStep ==
    DecodeField /\ UNCHANGED <<drainVars, buildVars, selVars, pqVars, stVars, accVars, bindVars,
                 lazyVars, cellVars>>

DecodeReturnStep ==
    DecodeReturn /\ UNCHANGED <<drainVars, buildVars, selVars, pqVars, stVars, accVars, bindVars,
                 lazyVars, cellVars>>

DecodeNext ==
    \/ DecodeFieldStep
    \/ DecodeReturnStep

DecodeSpec == DecodeInit /\ [][DecodeNext]_vars

----------------------------------------------------------------------------
\* Claims about the derived decoder

Finished == dec_pc \in {"returned", "panicked"}

\* the cells whose text the decoder of their field rejects
FailingCells ==
    {c \in (1..Len(response.data)) \X (1..Len(FieldNames)) :
        /\ c[2] <= Len(response.data[c[1]])
        /\ ~deserialize_from_str(FieldTypes[c[2]], response.data[c[1]][c[2]]).ok}

RowMajorBefore(c, d) == c[1] < d[1] \/ (c[1] = d[1] /\ c[2] < d[2])

FirstFailing ==
    CHOOSE c \in FailingCells : \A d \in FailingCells : ~RowMajorBefore(d, c)

LastDecoded == decoded[Len(decoded)]

\* C13: when decoding ends it has returned either one record for every row
\* of the data matrix, or the error of the first failing cell in row-major
\* order with no record, that cell being the last one handed to a decoder.
C13_AllRowsOrFirstError ==
    Finished =>
        \/ /\ dec_ret.tag = "ok"
           /\ Len(dec_ret.data) = Len(response.data)
           /\ FailingCells = {}
        \/ /\ dec_ret.tag = "error"
           /\ dec_ret.data = <<>>
           /\ FailingCells # {}
           /\ LastDecoded = FirstFailing
           /\ dec_ret.actual_value =
                  response.data[FirstFailing[1]][FirstFailing[2]]

C15_PresentCellNeverNone ==
    \A k \in 1..Len(results) :
        /\ results[k][2].some
        /\ results[k][2].value = response.data[k][2]

\* C16: field i of every record is the decoding of cell i of its row, and
\* decoding never ends abnormally.
C16_NeverAbnormal ==
    /\ dec_pc # "panicked"
    /\ \A k \in 1..Len(results) : \A i \in 1..Len(FieldNames) :
          results[k][i] =
              deserialize_from_str(FieldTypes[i], response.data[k][i]).value

----------------------------------------------------------------------------
\* One statement through select or lazy_select, and the continuation the
\* caller holds after an in-progress answer (snowflake-deserializer lib.rs
\* and lazy.rs)

\* retry() and cancel() calls a caller makes
MaxCalls == 2

\* the non-Option fields of RowsData
RowsDataFields == {"resultSetMetaData", "data"}

HttpRequest(method, url, statement_handle) ==
    [method |-> method, url |-> url, statement_handle |-> statement_handle]

\* client.post(get_url()): {host}statements?nullable=false&requestId={uuid}
StatementPost == HttpRequest("POST", "statements", "")

\* retry(): client.post({host}statements/{handle}?nullable=false)
RetryRequest(statement_handle) ==
    HttpRequest("POST", "statements/{handle}", statement_handle)

CancelRequestMutant(statement_handle) ==
    HttpRequest("POST", "statements/{handle}", statement_handle)

\* cancel(): client.post({host}statements/{handle}/cancel)
CancelRequest(statement_handle) ==
    HttpRequest("POST", "statements/{handle}/cancel", statement_handle)

\* the methods the two continuation types offer
Methods(kind) ==
    CASE kind = "SnowflakeQueryStatus" -> {"take_query_status", "cancel"}
      [] kind = "LazySnowflakeRetrySQLResult" -> {"retry", "status"}
      [] OTHER -> {}

Continuation(kind, statement_handle) ==
    [kind |-> kind, statement_handle |-> statement_handle]

\* parse_rows on the response it holds: the tag of what it returns
parse_rows(r) ==
    CASE r.status = OK ->
            IF ParsesAs(r.body, RowsDataFields) THEN "Parsed" ELSE "Decode"
      [] IsInProgress(r.status) ->
            IF ParsesAs(r.body, QueryStatusFields) THEN "Status" ELSE "Decode"
      [] r.status = UNPROCESSABLE_ENTITY ->
            IF ParsesAs(r.body, QueryFailureStatusFields) THEN "Query" ELSE "Decode"
      [] OTHER -> "Unknown"

\* the answers to a cancel request
CancelResponses ==
    {OkResponse(s, Body(GarbageFields, "h1", FALSE)) : s \in {OK, 404, 500}}
    \cup {ErrResponse(FALSE, 0)}

\* SnowflakeSQL::select: the POST and the classification of its answer
SelectCall ==
    /\ api = "select"
    /\ st_pc = "built"
    /\ sent' = Append(sent, StatementPost)
    /\ \E r \in SelectResponses :
        LET e == select(r)
        IN /\ st_response' = r
           /\ outcome' = e.tag
           /\ IF e.ok /\ e.tag = "Status"
              THEN /\ continuation' = Continuation("SnowflakeQueryStatus", e.handle)
                   /\ st_pc' = "status"
              ELSE /\ continuation' = NoContinuation
                   /\ st_pc' = "done"
    /\ UNCHANGED <<api, calls, cancel_response>>

\* SnowflakeSQL::lazy_select: the POST; the response is kept unread
LazySelect ==
    /\ api = "lazy_select"
    /\ st_pc = "built"
    /\ sent' = Append(sent, StatementPost)
    /\ \E r \in SelectResponses :
        /\ st_response' = r
        /\ IF r.kind = "err"
           THEN st_pc' = "done" /\ outcome' = "Request"
           ELSE st_pc' = "response" /\ outcome' = "LazySnowflakeSQLResult"
    /\ UNCHANGED <<api, continuation, calls, cancel_response>>

\* LazySnowflakeSQLResult::parse_rows
ParseRows ==
    /\ st_pc = "response"
    /\ outcome' = parse_rows(st_response)
    /\ IF parse_rows(st_response) = "Status"
       THEN /\ continuation' = Continuation("LazySnowflakeRetrySQLResult",
                                           st_response.body.handle)
            /\ st_pc' = "status"
       ELSE /\ continuation' = NoContinuation
            /\ st_pc' = "done"
    /\ UNCHANGED <<api, st_response, sent, calls, cancel_response>>

\* LazySnowflakeRetrySQLResult::retry: consumes the continuation
Retry ==
    /\ st_pc = "status"
    /\ "retry" \in Methods(continuation.kind)
    /\ calls < MaxCalls
    /\ calls' = calls + 1
    /\ sent' = Append(sent, RetryRequest(continuation.statement_handle))
    /\ continuation' = NoContinuation
    /\ \E r \in SelectResponses :
        /\ st_response' = r
        /\ IF r.kind = "err"
           THEN st_pc' = "done" /\ outcome' = "Request"
           ELSE st_pc' = "response" /\ outcome' = "LazySnowflakeSQLResult"
    /\ UNCHANGED <<api, cancel_response>>

\* SnowflakeQueryStatus::cancel: borrows the continuation
Cancel ==
    /\ st_pc = "status"
    /\ "cancel" \in Methods(continuation.kind)
    /\ calls < MaxCalls
    /\ calls' = calls + 1
    /\ sent' = Append(sent, CancelRequest(continuation.statement_handle))
    /\ \E r \in CancelResponses :
        /\ cancel_response' = r
        /\ outcome' = IF r.kind = "err" THEN "Request"
                      ELSE IF r.status = OK THEN "Cancelled" ELSE "Unknown"
    /\ UNCHANGED <<api, st_pc, st_response, continuation>>

\* SnowflakeQueryStatus::take_query_status: consumes the continuation
TakeQueryStatus ==
    /\ st_pc = "status"
    /\ "take_query_status" \in Methods(continuation.kind)
    /\ continuation' = NoContinuation
    /\ st_pc' = "done"
    /\ outcome' = "QueryStatus"
    /\ UNCHANGED <<api, st_response, sent, calls, cancel_response>>

StatementInit ==
    /\ DrainOff
    /\ BuildOff
    /\ SelectOff
    /\ PartitionOff
    /\ DecodeOff
    /\ AccessOff
    /\ BindOff
    /\ LazyOff
    /\ CellOff
    /\ api \in {"select", "lazy_select"}
    /\ st_pc = "built"
    /\ st_response = ErrResponse(FALSE, 0)
    /\ continuation = NoContinuation
    /\ sent = <<>>
    /\ outcome = "none"
    /\ calls = 0
    /\ cancel_response = ErrResponse(FALSE, 0)

SelectCallStep ==
    SelectCall /\ UNCHANGED <<drainVars, buildVars, selVars, pqVars, decVars,
                            accVars, bindVars,
                 lazyVars, cellVars>>

LazySelectStep ==
    LazySelect /\ UNCHANGED <<drainVars, buildVars, selVars, pqVars, decVars,
                            accVars, bindVars,
                 lazyVars, cellVars>>

ParseRowsStep ==
    ParseRows /\ UNCHANGED <<drainVars, buildVars, selVars, pqVars, decVars,
                            accVars, bindVars,
                 lazyVars, cellVars>>

RetryStep ==
    Retry /\ UNCHANGED <<drainVars, buildVars, selVars, pqVars, decVars,
                            accVars, bindVars,
                 lazyVars, cellVars>>

CancelStep ==
    Cancel /\ UNCHANGED <<drainVars, buildVars, selVars, pqVars, decVars,
                            accVars, bindVars,
                 lazyVars, cellVars>>

TakeQueryStatusStep ==
    TakeQueryStatus /\ UNCHANGED <<drainVars, buildVars, selVars, pqVars, decVars,
                            accVars, bindVars,
                 lazyVars, cellVars>>

StatementNext ==
    \/ SelectCallStep
    \/ LazySelectStep
    \/ ParseRowsStep
    \/ RetryStep
    \/ CancelStep
    \/ TakeQueryStatusStep

StatementSpec == StatementInit /\ [][StatementNext]_vars

\* C17: a continuation is bound to the handle of the in-progress answer and
\* offers both a poll and a cancel; every request that polls the statement
\* again is a GET against that handle.
C17_PollByGetAndCancel ==
    /\ continuation.kind # "none" =>
          /\ continuation.statement_handle = st_response.body.handle
          /\ IsInProgress(st_response.status)
          /\ {"retry", "cancel"} \subseteq Methods(continuation.kind)
    /\ \A i \in 1..Len(sent) :
          sent[i].url = "statements/{handle}" => sent[i].method = "GET"

----------------------------------------------------------------------------
\* The three request-issuing operations side by side: a batch drained with
\* complete(), a statement through select / lazy_select, and a select with
\* partition assembly

ClientInit ==
    \/ Init
    \/ StatementInit
    \/ PartitionInit

ClientNext ==
    \/ BeginStep
    \/ PollStep
    \/ EndStep
    \/ SelectCallStep
    \/ LazySelectStep
    \/ ParseRowsStep
    \/ RetryStep
    \/ CancelStep
    \/ TakeQueryStatusStep
    \/ PostQueryStep
    \/ PartitionSendStep
    \/ PartitionReceiveStep

ClientSpec == ClientInit /\ [][ClientNext]_vars

\* the statement POSTs among the requests sent
StatementPosts == {i \in 1..Len(sent) : sent[i] = StatementPost}

\* C18: a complete() call has sent one status GET per handle it has passed
\* and, when it returns, one per handle pending at its start, whatever the
\* answers were; a select has sent one statement POST and nothing else that
\* the caller did not ask for by a retry() or cancel() call; a select with
\* partitions has sent one POST and each partition GET at most once, one per
\* extra partition when it succeeds.
C18_NoResend ==
    /\ cpc = "polling" => (Len(polls) = idx - 1 /\ Len(polls) <= Len(before))
    /\ Returned => Len(polls) = Len(before)
    /\ st_pc \notin {"off", "built"} =>
          /\ StatementPosts = {1}
          /\ Len(sent) = 1 + calls
    /\ st_pc = "built" => sent = <<>>
    /\ pq_pc = "built" => posts = 0
    /\ pq_pc \in {"fetch", "await", "done"} => posts = 1
    /\ \A i, j \in 1..Len(requests) : requests[i] = requests[j] => i = j
    /\ pq_ret.tag = "decoded" =>
          Len(requests) = (IF Declared > 1 THEN Declared - 1 ELSE 0)

C18_Witness ==
    /\ Returned
    /\ Len(before) = 3
    /\ polls[1].kind = "ok" /\ polls[1].status = TOO_MANY_REQUESTS
    /\ polls[2].kind = "err"
    /\ polls[3].kind = "ok" /\ polls[3].status = ACCEPTED
    /\ Len(polls) = 3

\* the entries of a transport error, a body-decode error and an unknown status
AbortTags == {"Decode", "Unknown", "UnknownResponse", "Request"}

\* select and partition assembly end on such an answer: the error is
\* returned and nothing further is or can be sent
SelectAborts ==
    (api = "select" /\ st_pc # "built"
        /\ select(st_response).tag \in AbortTags) =>
        /\ st_pc = "done"
        /\ outcome = select(st_response).tag
        /\ sent = <<StatementPost>>
        /\ ~ENABLED StatementNext

PartitionAborts ==
    pq_ret.tag = "error" =>
        /\ pq_pc = "done"
        /\ Len(requests) <= Len(served) + 1
        /\ ~ENABLED PartitionNext

\* C19 as claimed: in a drain round, too, no poll follows the poll that
\* ended in a transport, decode or unknown-status error.
C19_Original ==
    /\ SelectAborts
    /\ PartitionAborts
    /\ \A i \in 1..Len(statements) :
          statements[i].tag \in AbortTags => i = Len(statements)

\* C19 amended: such an answer ends select and partition assembly at once;
\* in a drain round it ends only the poll of its handle: the error is that
\* handle's entry, the handle is dropped from the pending list, and the
\* round goes on to poll every handle that was pending at its start.
C19_Amended ==
    /\ SelectAborts
    /\ PartitionAborts
    /\ \A i \in 1..Len(statements) :
          statements[i].tag \in AbortTags =>
              /\ ~statements[i].ok
              /\ i \in to_remove_index
              /\ Returned => before[i] \notin Range(statement_handles)
    /\ Returned => Len(statements) = Len(before)

C19_Witness ==
    /\ Returned
    /\ Len(before) = 3
    /\ polls[1].kind = "err"
    /\ statements[1].tag = "UnknownResponse"
    /\ statements[2].tag = "Decode"
    /\ statements[3].tag = "Parse"
    /\ statement_handles = <<>>

----------------------------------------------------------------------------
\* Order of the pending list

\* the position of handle h in the list s
Pos(h, s) == CHOOSE i \in 1..Len(s) : s[i] = h

\* the handles of s stand in the order they have in t
SameOrder(s, t) ==
    \A i, j \in 1..Len(s) : i < j => Pos(s[i], t) < Pos(s[j], t)

\* C20: the i-th poll of a round is for the i-th handle of the pending list
\* as it stood when the round began, the list is not touched while the round
\* polls, and the pending handles always stand in the order in which the
\* submission returned them.
C20_OrderKept ==
    /\ \A i \in 1..Len(statements) : statements[i].handle = before[i]
    /\ cpc = "polling" =>
          (statement_handles = before /\ idx = Len(statements) + 1)
    /\ SameOrder(statement_handles, issued)
    /\ SameOrder(before, issued)

C20_Witness ==
    /\ Returned
    /\ issued = <<"h1", "h2", "h3">>
    /\ before = <<"h1", "h2", "h3">>
    /\ statements[2].tag = "Parse"
    /\ statement_handles = <<"h1", "h3">>

----------------------------------------------------------------------------
\* A held MultipleSnowflakeSQLResponse and the calls that take &self:
\* statement_status, are_all_complete, unfinished_statements

\* the pending lists complete() rounds leave of the issued list: each of its
\* sub-sequences (a round drops any set of positions)
PendingLists(handles) ==
    {Retain(handles, remove) : remove \in SUBSET (1..Len(handles))}

\* the handles a caller may pass to statement_status: pending or not
AnyHandle == {HandleNames[k] : k \in 1..Len(HandleNames)}

\* statement_status(&self, statement_handle) called on its own
StatementStatusCall ==
    /\ cpc = "idle"
    /\ \E h \in AnyHandle : \E r \in PollResponses(h) :
          ret' = Returns("statement_status", h, r, statement_status(h, r),
                         FALSE, <<>>)
    /\ UNCHANGED drainVars

\* are_all_complete(&self)
AreAllCompleteCall ==
    /\ cpc = "idle"
    /\ ret' = Returns("are_all_complete", "", ErrResponse(FALSE, 0),
                      Entry(FALSE, "none", "", 0), are_all_complete, <<>>)
    /\ UNCHANGED drainVars

\* unfinished_statements(&self)
UnfinishedStatementsCall ==
    /\ cpc = "idle"
    /\ ret' = Returns("unfinished_statements", "", ErrResponse(FALSE, 0),
                      Entry(FALSE, "none", "", 0), FALSE, unfinished_statements)
    /\ UNCHANGED drainVars

AccessInit ==
    /\ issued \in IssuedLists
    /\ statement_handles \in PendingLists(issued)
    /\ cpc = "idle"
    /\ idx = 1
    /\ to_remove_index = {}
    /\ statements = <<>>
    /\ polls = <<>>
    /\ before = <<>>
    /\ rounds = (statement_handles # issued)
    /\ BuildOff
    /\ SelectOff
    /\ PartitionOff
    /\ DecodeOff
    /\ StatementOff
    /\ BindOff
    /\ LazyOff
    /\ CellOff
    /\ ret = NoCall

StatementStatusCallStep ==
    StatementStatusCall
    /\ UNCHANGED <<buildVars, selVars, pqVars, decVars, stVars, bindVars,
                 lazyVars, cellVars>>

AreAllCompleteCallStep ==
    AreAllCompleteCall
    /\ UNCHANGED <<buildVars, selVars, pqVars, decVars, stVars, bindVars,
                 lazyVars, cellVars>>

UnfinishedStatementsCallStep ==
    UnfinishedStatementsCall
    /\ UNCHANGED <<buildVars, selVars, pqVars, decVars, stVars, bindVars,
                 lazyVars, cellVars>>

AccessNext ==
    \/ StatementStatusCallStep
    \/ AreAllCompleteCallStep
    \/ UnfinishedStatementsCallStep

AccessSpec == AccessInit /\ [][AccessNext]_vars

StatusOf(r) == IF r.kind = "ok" \/ r.has_status THEN r.status ELSE 0

\* C21 as claimed: the status code alone names the outcome.
C21_Original ==
    (ret.call = "statement_status" /\ ret.response.kind = "ok") =>
        LET code == ret.response.status
            tag == ret.entry.tag
        IN /\ code = 200 => tag = "Parse"
           /\ code \in {202, 408} => tag = "Status"
           /\ code = 422 => tag = "Query"
           /\ code \in {429, 503, 504} => tag = "TooManyRequests"
           /\ code \notin {200, 202, 408, 422, 429, 503, 504} => tag = "Unknown"

\* C21 amended: the status code picks the arm (200 a result still to be
\* parsed, 202/408 in progress, 422 service failure, 429/503/504 rate
\* limited, any other status unknown); in the 202/408 and 422 arms a body
\* that does not decode gives a Decode error instead; a transport error is
\* Unknown with its status or UnknownResponse without one; the entry is
\* about the handle passed, and no call changes the pending list.
C21_Amended ==
    /\ [](ret.call = "statement_status" =>
            LET r == ret.response
                code == StatusOf(r)
                tag == ret.entry.tag
                decodes(fs) == fs \subseteq r.body.fields
            IN IF r.kind = "err"
               THEN tag = (IF r.has_status THEN "Unknown" ELSE "UnknownResponse")
               ELSE /\ code = 200 => (tag = "Parse" /\ ret.entry.ok)
                    /\ code \in {202, 408} =>
                          tag = (IF decodes(QueryStatusFields)
                                 THEN "Status" ELSE "Decode")
                    /\ code = 422 =>
                          tag = (IF decodes(QueryFailureStatusFields)
                                 THEN "Query" ELSE "Decode")
                    /\ code \in {429, 503, 504} => tag = "TooManyRequests"
                    /\ code \notin {200, 202, 408, 422, 429, 503, 504} =>
                          tag = "Unknown"
                    /\ ret.entry.handle = ret.statement_handle)
    /\ [][statement_handles' = statement_handles]_vars

C21_Witness ==
    /\ ret.call = "statement_status"
    /\ ret.statement_handle = "h3"
    /\ ret.response.kind = "ok"
    /\ ret.response.status = 202
    /\ ret.entry.tag = "Decode"
    /\ statement_handles = <<"h1", "h3">>
    /\ issued = <<"h1", "h2", "h3">>

\* C22: are_all_complete() is true exactly when unfinished_statements() is
\* empty, each returns what the pending list says, and neither changes it.
C22_CompleteIffNoneUnfinished ==
    /\ [](are_all_complete <=> unfinished_statements = <<>>)
    /\ [](ret.call = "are_all_complete" =>
            (ret.flag <=> unfinished_statements = <<>>))
    /\ [](ret.call = "unfinished_statements" =>
            (ret.list = statement_handles /\ IsSubSeq(ret.list, issued)))
    /\ [][(AreAllCompleteCallStep \/ UnfinishedStatementsCallStep) =>
            statement_handles' = statement_handles]_vars

C22_Witness ==
    /\ ret.call = "are_all_complete"
    /\ ret.flag
    /\ issued = <<"h1", "h2">>
    /\ unfinished_statements = <<>>

----------------------------------------------------------------------------
\* The submitted statement body

\* the texts with one space between neighbours, built from the left
RECURSIVE SpaceJoined(_)
SpaceJoined(texts) ==
    IF texts = <<>> THEN ""
    ELSE IF Len(texts) = 1 THEN texts[1]
    ELSE SpaceJoined(SubSeq(texts, 1, Len(texts) - 1)) \o " " \o texts[Len(texts)]

\* C23: the statement body run() posts is the pushed texts in push order
\* with exactly one space between neighbours, whichever call pushed them,
\* and concatenated_statement() reports that body; A, B (as 3), C gives
\* "A; B; C;" with a count of 5.
C23_JoinedBySingleSpaces ==
    /\ request.sent => request.statement = SpaceJoined(statement)
    /\ bphase = "submitted" => concatenated_statement = request.statement
    /\ (request.sent /\ statement = <<"A;", "B;", "C;">>
           /\ additional_statements_count = 2) =>
          /\ request.statement = "A; B; C;"
          /\ request.statement_count = 5

C23_Witness ==
    /\ bphase = "submitted"
    /\ statement = <<"A;", "B;", "C;">>
    /\ additional_statements_count = 2
    /\ logical = 5
    /\ concatenated_statement = "A; B; C;"

----------------------------------------------------------------------------
\* Cancelling

\* C24: a cancel() call sends one POST to the cancel endpoint of the handle
\* the continuation holds, returns Ok exactly when the answer is a 200, the
\* Unknown error for any other status and the Request error for a transport
\* failure, and leaves the continuation, its query status and everything it
\* offers as they were.
C24_CancelFrame ==
    [][CancelStep =>
        /\ sent' = Append(sent, HttpRequest("POST", "statements/{handle}/cancel",
                                            continuation.statement_handle))
        /\ outcome' =
              (IF cancel_response'.kind = "err" THEN "Request"
               ELSE IF cancel_response'.status = 200 THEN "Cancelled"
               ELSE "Unknown")
        /\ continuation' = continuation
        /\ continuation.kind = "SnowflakeQueryStatus"
        /\ st_response' = st_response
        /\ st_pc' = st_pc
        /\ Methods(continuation'.kind) = Methods(continuation.kind)]_vars

C24_Witness ==
    /\ st_pc = "status"
    /\ continuation = Continuation("SnowflakeQueryStatus", "h2")
    /\ calls = 2
    /\ Len(sent) = 3
    /\ sent[2] = sent[3]
    /\ outcome = "Unknown"
    /\ cancel_response.status = 404

----------------------------------------------------------------------------
\* Bindings: BindingValue, BindingType (bindings.rs) and add_binding
\* (snowflake-deserializer lib.rs)

\* add_binding calls on one statement
MaxBindings == 2

DecimalDigits == <<"0", "1", "2", "3", "4", "5", "6", "7", "8", "9">>

\* the decimal digits of a natural number
RECURSIVE NatToString(_)
NatToString(n) ==
    IF n < 10
    THEN DecimalDigits[n + 1]
    ELSE NatToString(n \div 10) \o DecimalDigits[(n % 10) + 1]

\* to_string of an integer
IntToString(n) == IF n < 0 THEN "-" \o NatToString(0 - n) ELSE NatToString(n)

\* the nine digits of a sub-second nanosecond count
RECURSIVE Padded(_, _)
Padded(n, width) ==
    IF width = 0 THEN ""
    ELSE Padded(n \div 10, width - 1) \o DecimalDigits[(n % 10) + 1]

BindingValue(variant, value) == [variant |-> variant, value |-> value]

\* f32 / f64 values: a NaN, or a number of tenths
Float(nan, tenths) == [nan |-> nan, tenths |-> tenths]

\* a NaiveDateTime: days since 1970-01-01, second of the day, nanosecond
DateTime(days, secs, nanos) == [days |-> days, secs |-> secs, nanos |-> nanos]

IntegerVariants == {"Byte", "SmallInt", "Int", "BigInt", "ISize", "UByte",
                    "SmallUInt", "UInt", "BigUInt", "USize"}

\* a date-time beyond the years an i64 of nanoseconds spans (year 2517)
FarDateTime == DateTime(200000, 0, 0)

\* the values handed to add_binding
BindingValues ==
    {BindingValue("Bool", b) : b \in BOOLEAN}
    \cup {BindingValue("Byte", -1), BindingValue("SmallInt", 7),
          BindingValue("Int", 69), BindingValue("Int", -128),
          BindingValue("BigInt", -5), BindingValue("ISize", 0),
          BindingValue("UByte", 255), BindingValue("SmallUInt", 8),
          BindingValue("UInt", 9), BindingValue("BigUInt", 10),
          BindingValue("USize", 11)}
    \cup {BindingValue("Float", Float(FALSE, 15)),
          BindingValue("Double", Float(FALSE, 20)),
          BindingValue("Double", Float(TRUE, 0)),
          BindingValue("Decimal", [mantissa |-> 15, scale |-> 1])}
    \cup {BindingValue("Char", "c"), BindingValue("String", "JoMama")}
    \cup {BindingValue("DateTime", d) :
            d \in {DateTime(0, 0, 0), DateTime(0, 1, 500000000),
                   DateTime(19000, 3600, 7), FarDateTime}}
    \cup {BindingValue("Date", d) : d \in {0, 1, 19000, -1}}
    \cup {BindingValue("Time", t) : t \in {0, 3, 60, 3600, 86397}}

BindingTypeFromMutant(value) ==
    CASE value.variant = "Bool" -> "Bool"
      [] value.variant \in IntegerVariants \cup {"Char"} -> "Fixed"
      [] value.variant \in {"Float", "Double", "Decimal"} -> "Real"
      [] value.variant = "String" -> "Text"
      [] value.variant = "DateTime" -> "DateTime"
      [] value.variant = "Date" -> "Date"
      [] value.variant = "Time" -> "Time"

\* impl From<BindingValue> for BindingType
BindingTypeFrom(value) ==
    CASE value.variant = "Bool" -> "Bool"
      [] value.variant \in IntegerVariants -> "Fixed"
      [] value.variant \in {"Float", "Double", "Decimal"} -> "Real"
      [] value.variant \in {"Char", "String"} -> "Text"
      [] value.variant = "DateTime" -> "DateTime"
      [] value.variant = "Date" -> "Date"
      [] value.variant = "Time" -> "Time"

\* impl ToString for BindingType
BindingTypeToString(type) ==
    CASE type = "Bool" -> "BOOLEAN"
      [] type = "Fixed" -> "FIXED"
      [] type = "Real" -> "REAL"
      [] type = "Text" -> "TEXT"
      [] type = "DateTime" -> "TIMESTAMP_NTZ"
      [] type = "Date" -> "DATE"
      [] type = "Time" -> "TIME"

\* bool::to_string
BoolToString(b) == IF b THEN "true" ELSE "false"

\* f32 / f64 Display: the shortest text that reads back as the value
FloatToString(f) ==
    IF f.nan THEN "NaN"
    ELSE IF f.tenths % 10 = 0
         THEN IntToString(f.tenths \div 10)
         ELSE IntToString(f.tenths \div 10) \o "." \o DecimalDigits[(f.tenths % 10) + 1]

\* Decimal Display, for a scale of one
DecimalToString(d) ==
    IntToString(d.mantissa \div 10) \o "." \o DecimalDigits[(d.mantissa % 10) + 1]

\* i64::MAX nanoseconds after the epoch is day 106751, second 85636 of that
\* day, nanosecond 854775807 (2262-04-11 23:47:16.854775807)
I64MaxDays == 106751
I64MaxSecondOfDay == 85636
I64MaxNanos == 854775807

\* whether the nanoseconds since the epoch of a date-time fit an i64
FitsI64Nanos(dt) ==
    /\ dt.days > 0 - I64MaxDays
    /\ \/ dt.days < I64MaxDays
       \/ /\ dt.days = I64MaxDays
          /\ \/ dt.secs < I64MaxSecondOfDay
             \/ dt.secs = I64MaxSecondOfDay /\ dt.nanos <= I64MaxNanos

\* NaiveDateTime::timestamp as decimal text: days * 86400 + second of day
TimestampText(dt) ==
    IF dt.secs = 0
    THEN IF dt.days = 0 THEN "0" ELSE IntToString(dt.days * 864) \o "00"
    ELSE IntToString(dt.days * 86400 + dt.secs)

\* timestamp() * 1_000_000_000 + subsec_nanos as decimal text
NanosText(dt) ==
    IF TimestampText(dt) = "0"
    THEN IntToString(dt.nanos)
    ELSE TimestampText(dt) \o Padded(dt.nanos, 9)

\* what the i64 product holds after it wrapped around, for FarDateTime:
\* 17280000000000000000 - 2^64
WrappedNanosText(dt) == "-1166744073709551616"

\* NaiveDateTime::timestamp_nanos: out of range it panics (overflow checks
\* on, or a chrono that expects the value to fit) or wraps (checks off)
timestamp_nanos(dt) ==
    IF FitsI64Nanos(dt)
    THEN {[kind |-> "ok", text |-> NanosText(dt)]}
    ELSE {[kind |-> "panic"], [kind |-> "ok", text |-> WrappedNanosText(dt)]}

\* NaiveDate::and_time(00:00:00).timestamp_millis
timestamp_millis(days) ==
    IF days = 0 THEN "0" ELSE IntToString(days * 86400) \o "000"

\* Decimal::new(nanoseconds since midnight, 0) / dec!(60), for a whole
\* number of seconds that is a multiple of three (the quotient is whole):
\* secs * 10^9 / 60 = (secs / 3) * 5 * 10^7
TimeToString(secs) ==
    IF secs = 0 THEN "0" ELSE IntToString((secs \div 3) * 5) \o "0000000"

\* BindingValue::to_string: the outcomes of encoding one value
BindingValueToString(value) ==
    CASE value.variant = "Bool" ->
           {[kind |-> "ok", text |-> BoolToString(value.value)]}
      [] value.variant \in IntegerVariants ->
           {[kind |-> "ok", text |-> IntToString(value.value)]}
      [] value.variant \in {"Float", "Double"} ->
           {[kind |-> "ok", text |-> FloatToString(value.value)]}
      [] value.variant = "Decimal" ->
           {[kind |-> "ok", text |-> DecimalToString(value.value)]}
      [] value.variant \in {"Char", "String"} ->
           {[kind |-> "ok", text |-> value.value]}
      [] value.variant = "DateTime" -> timestamp_nanos(value.value)
      [] value.variant = "Date" ->
           {[kind |-> "ok", text |-> timestamp_millis(value.value)]}
      [] value.variant = "Time" ->
           {[kind |-> "ok", text |-> TimeToString(value.value)]}

Binding(value_type, value) == [value_type |-> value_type, value |-> value]

InsertMutant(map, binding) == (IntToString(Len(added)) :> binding) @@ map

\* HashMap::insert under the key (len + 1).to_string()
Insert(map, binding) ==
    (IntToString(Cardinality(DOMAIN map) + 1) :> binding) @@ map

\* SnowflakeSQL::add_binding
add_binding(value) ==
    /\ bind_pc = "building"
    /\ Len(added) < MaxBindings
    /\ added' = Append(added, value)
    /\ \E encoded \in BindingValueToString(value) :
         IF encoded.kind = "panic"
         THEN /\ bind_pc' = "panicked"
              /\ UNCHANGED bindings
         ELSE LET binding == Binding(BindingTypeToString(BindingTypeFrom(value)),
                                     encoded.text)
              IN  /\ bind_pc' = "building"
                  /\ bindings' = [is_some |-> TRUE,
                                  map |-> IF bindings.is_some
                                          THEN Insert(bindings.map, binding)
                                          ELSE ("1" :> binding)]

AddBinding ==
    /\ \E value \in BindingValues : add_binding(value)
    /\ UNCHANGED <<drainVars, buildVars, selVars, pqVars, decVars, stVars, accVars,
                   lazyVars, cellVars>>

BindInit ==
    /\ DrainOff /\ BuildOff /\ SelectOff /\ PartitionOff
    /\ DecodeOff /\ StatementOff /\ AccessOff
    /\ LazyOff /\ CellOff
    /\ bind_pc = "building"
    /\ bindings = [is_some |-> FALSE, map |-> <<>>]
    /\ added = <<>>

BindNext == AddBinding

BindSpec == BindInit /\ [][BindNext]_vars

----------------------------------------------------------------------------
\* The from-string decoders of the scalar types a binding holds
\* (snowflake-deserializer lib.rs, impl DeserializeFromStr)

DecoderOfMutant(variant) ==
    CASE variant = "Bool" -> "bool"
      [] variant = "Byte" -> "i8"
      [] variant = "SmallInt" -> "i16"
      [] variant = "Int" -> "u32"
      [] variant = "BigInt" -> "i64"
      [] variant = "ISize" -> "isize"
      [] variant = "UByte" -> "u8"
      [] variant = "SmallUInt" -> "u16"
      [] variant = "UInt" -> "u32"
      [] variant = "BigUInt" -> "u64"
      [] variant = "USize" -> "usize"
      [] variant = "Float" -> "f32"
      [] variant = "Double" -> "f64"
      [] variant = "Decimal" -> "Decimal"
      [] variant = "Char" -> "char"
      [] variant = "String" -> "String"
      [] variant = "DateTime" -> "NaiveDateTime"
      [] variant = "Date" -> "NaiveDate"
      [] variant = "Time" -> "NaiveTime"

\* the scalar type each BindingValue variant holds
DecoderOf(variant) ==
    CASE variant = "Bool" -> "bool"
      [] variant = "Byte" -> "i8"
      [] variant = "SmallInt" -> "i16"
      [] variant = "Int" -> "i32"
      [] variant = "BigInt" -> "i64"
      [] variant = "ISize" -> "isize"
      [] variant = "UByte" -> "u8"
      [] variant = "SmallUInt" -> "u16"
      [] variant = "UInt" -> "u32"
      [] variant = "BigUInt" -> "u64"
      [] variant = "USize" -> "usize"
      [] variant = "Float" -> "f32"
      [] variant = "Double" -> "f64"
      [] variant = "Decimal" -> "Decimal"
      [] variant = "Char" -> "char"
      [] variant = "String" -> "String"
      [] variant = "DateTime" -> "NaiveDateTime"
      [] variant = "Date" -> "NaiveDate"
      [] variant = "Time" -> "NaiveTime"

SignedTypes == {"isize", "i16", "i32", "i64", "i128"}
UnsignedTypes == {"usize", "u8", "u16", "u32", "u64", "u128"}

\* the scalar types with an impl of DeserializeFromStr
DecodableTypes ==
    {"bool", "f32", "f64", "String", "NaiveDate", "NaiveDateTime"}
    \cup SignedTypes \cup UnsignedTypes

\* the integers whose decimal text the parsers are tried on
ParsedIntegers == -128..255

\* <bool>::from_str
BoolFromStr(text) ==
    CASE text = "true" -> Ok(TRUE)
      [] text = "false" -> Ok(FALSE)
      [] OTHER -> Err("ParseBoolError")

\* <$ty>::from_str of an integer type: the number whose decimal text this
\* is, when the type can hold it
IntFromStr(ty, text) ==
    LET held == {n \in ParsedIntegers :
                   /\ IntToString(n) = text
                   /\ ty \in UnsignedTypes => n >= 0
                   /\ ty = "u8" => n <= 255}
    IN  IF held = {} THEN Err("ParseIntError") ELSE Ok(CHOOSE n \in held : TRUE)

\* the floats whose text the parsers are tried on
ParsedFloats == {Float(FALSE, tenths) : tenths \in 0..30} \cup {Float(TRUE, 0)}

\* <f32>::from_str, <f64>::from_str
FloatFromStr(text) ==
    LET held == {f \in ParsedFloats : FloatToString(f) = text}
    IN  IF held = {} THEN Err("ParseFloatError") ELSE Ok(CHOOSE f \in held : TRUE)

\* the texts NaiveDate::parse_from_str(s, "%Y-%m-%d") accepts, with the day
\* since 1970-01-01 each one names
DateTexts ==
    ("1969-12-31" :> -1) @@ ("1970-01-01" :> 0) @@ ("1970-01-02" :> 1)
    @@ ("2022-01-08" :> 19000)

\* impl DeserializeFromStr for chrono::NaiveDate
NaiveDateFromStr(text) ==
    IF text \in DOMAIN DateTexts THEN Ok(DateTexts[text]) ELSE Err("ParseError")

\* the texts "%Y-%m-%d %H:%M:%S%.f" or "%Y-%m-%d %H:%M:%S" accepts
DateTimeTexts ==
    ("1970-01-01 00:00:00" :> DateTime(0, 0, 0))
    @@ ("1970-01-01 00:00:01.5" :> DateTime(0, 1, 500000000))
    @@ ("2022-01-08 01:00:00.000000007" :> DateTime(19000, 3600, 7))
    @@ ("2517-08-01 00:00:00" :> FarDateTime)

\* impl DeserializeFromStr for chrono::NaiveDateTime
NaiveDateTimeFromStr(text) ==
    IF text \in DOMAIN DateTimeTexts
    THEN Ok(DateTimeTexts[text])
    ELSE Err("ParseError")

\* <T as DeserializeFromStr>::deserialize_from_str for a decodable scalar
FromStr(ty, text) ==
    CASE ty = "bool" -> BoolFromStr(text)
      [] ty \in SignedTypes \cup UnsignedTypes -> IntFromStr(ty, text)
      [] ty \in {"f32", "f64"} -> FloatFromStr(text)
      [] ty = "String" -> StringFromStr(text)
      [] ty = "NaiveDate" -> NaiveDateFromStr(text)
      [] ty = "NaiveDateTime" -> NaiveDateTimeFromStr(text)

\* PartialEq of the scalar: a NaN equals nothing, itself included
ScalarEq(ty, a, b) ==
    IF ty \in {"f32", "f64"} THEN ~a.nan /\ ~b.nan /\ a = b ELSE a = b

----------------------------------------------------------------------------
\* Claims about bindings (BindSpec)

\* the keys of the first bindings, as literal text
KeyNames == <<"1", "2", "3", "4">>

\* the tag and the encoded text held by entry i of the bindings
EntryMatches(i) ==
    /\ bindings.map[KeyNames[i]].value_type
         = BindingTypeToString(BindingTypeFrom(added[i]))
    /\ [kind |-> "ok", text |-> bindings.map[KeyNames[i]].value]
         \in BindingValueToString(added[i])

\* C25: after k >= 1 calls of add_binding that returned, the bindings map
\* has exactly the keys "1" .. "k", the entry under key i holds the type tag
\* and the encoded value of the i-th value added, and no call changes an
\* entry that was already there; 69 then "JoMama" gives keys "1", "2" with
\* FIXED "69" and TEXT "JoMama".
C25_KeysCountUp ==
    /\ [](bind_pc = "building" =>
            /\ bindings.is_some = (Len(added) >= 1)
            /\ DOMAIN bindings.map = {KeyNames[i] : i \in 1..Len(added)}
            /\ Cardinality(DOMAIN bindings.map) = Len(added)
            /\ \A i \in 1..Len(added) : EntryMatches(i)
            /\ (added = <<BindingValue("Int", 69), BindingValue("String", "JoMama")>>
                  => bindings.map = ("1" :> Binding("FIXED", "69"))
                                    @@ ("2" :> Binding("TEXT", "JoMama"))))
    /\ [][\A key \in DOMAIN bindings.map :
            /\ key \in DOMAIN bindings.map'
            /\ bindings.map'[key] = bindings.map[key]]_vars

C25_Witness ==
    /\ bind_pc = "building"
    /\ added = <<BindingValue("Int", 69), BindingValue("String", "JoMama")>>
    /\ DOMAIN bindings.map = {"1", "2"}

\* the tag the claim names for each variant
TagOfVariant(variant) ==
    CASE variant = "Bool" -> "BOOLEAN"
      [] variant \in {"Byte", "SmallInt", "Int", "BigInt", "ISize"} -> "FIXED"
      [] variant \in {"UByte", "SmallUInt", "UInt", "BigUInt", "USize"} -> "FIXED"
      [] variant \in {"Float", "Double", "Decimal"} -> "REAL"
      [] variant \in {"Char", "String"} -> "TEXT"
      [] variant = "Date" -> "DATE"
      [] variant = "Time" -> "TIME"
      [] variant = "DateTime" -> "TIMESTAMP_NTZ"

\* C26: every binding carries the one tag of its value's variant: BOOLEAN
\* for a boolean, FIXED for every integer width, REAL for floats and
\* decimals, TEXT for characters and text, DATE, TIME and TIMESTAMP_NTZ for
\* the temporal variants; two values of one variant never differ in tag.
C26_TagByVariant ==
    /\ \A i \in 1..Len(added) :
         KeyNames[i] \in DOMAIN bindings.map =>
           bindings.map[KeyNames[i]].value_type = TagOfVariant(added[i].variant)
    /\ \A v, w \in BindingValues :
         v.variant = w.variant =>
           BindingTypeToString(BindingTypeFrom(v)) = BindingTypeToString(BindingTypeFrom(w))

C26_Witness ==
    /\ bind_pc = "building"
    /\ Len(added) = 2
    /\ added[1].variant = "Char"
    /\ added[2].variant = "DateTime"
    /\ bindings.map["1"].value_type = "TEXT"
    /\ bindings.map["2"].value_type = "TIMESTAMP_NTZ"

\* the bindings of values whose scalar type has a from-string decoder
Decodable == {i \in 1..Len(added) :
                /\ KeyNames[i] \in DOMAIN bindings.map
                /\ DecoderOf(added[i].variant) \in DecodableTypes}

\* the binding's text, decoded as the scalar type of the value it encodes
Decoded(i) == FromStr(DecoderOf(added[i].variant), bindings.map[KeyNames[i]].value)

RoundTrips(i) ==
    /\ Decoded(i).ok
    /\ ScalarEq(DecoderOf(added[i].variant), Decoded(i).value, added[i].value)

C28_EncodingTotal ==
    /\ bind_pc # "panicked"
    /\ Cardinality(DOMAIN bindings.map) = Len(added)
    /\ \A i \in 1..Len(added) :
         (added[i].variant = "DateTime" /\ KeyNames[i] \in DOMAIN bindings.map)
           => bindings.map[KeyNames[i]].value = NanosText(added[i].value)

\* nanoseconds since the epoch of the date-times bound, as decimal text
NanosSinceEpoch ==
    (DateTime(0, 0, 0) :> "0")
    @@ (DateTime(0, 1, 500000000) :> "1500000000")
    @@ (DateTime(19000, 3600, 7) :> "1641603600000000007")
    @@ (FarDateTime :> "17280000000000000000")

\* days since the epoch times 86,400,000, as decimal text
MillisSinceEpoch ==
    (0 :> "0") @@ (1 :> "86400000") @@ (19000 :> "1641600000000")
    @@ (-1 :> "-86400000")

\* C29: the binding of a date-time holds the decimal text of its whole
\* nanoseconds since the Unix epoch, and the binding of a date the decimal
\* text of the milliseconds since the epoch of its midnight.
C29_EpochTexts ==
    \A i \in 1..Len(added) :
      /\ added[i].variant = "DateTime" =>
           /\ KeyNames[i] \in DOMAIN bindings.map
           /\ bindings.map[KeyNames[i]].value = NanosSinceEpoch[added[i].value]
      /\ added[i].variant = "Date" =>
           /\ KeyNames[i] \in DOMAIN bindings.map
           /\ bindings.map[KeyNames[i]].value = MillisSinceEpoch[added[i].value]

\* the time since midnight in minutes, as decimal text, by second of the day
MinutesSinceMidnight ==
    (0 :> "0") @@ (3 :> "0.05") @@ (60 :> "1") @@ (3600 :> "60")
    @@ (86397 :> "1439.95")

\* C30: the binding of a time of day holds the time since midnight in
\* minutes: 00:01:00 is bound as 1 and 01:00:00 as 60.
C30_MinutesSinceMidnight ==
    \A i \in 1..Len(added) :
      (added[i].variant = "Time" /\ KeyNames[i] \in DOMAIN bindings.map)
        => bindings.map[KeyNames[i]].value = MinutesSinceMidnight[added[i].value]

----------------------------------------------------------------------------
\* Further claims about complete() (Spec)

\* a poll answered 202 or 408 with a body that decodes as a QueryStatus
InProgressAnswer(r) ==
    /\ r.kind = "ok"
    /\ r.status \in {202, 408}
    /\ QueryStatusFields \subseteq r.body.fields
    /\ r.body.decodes

UndecidedAnswer(r) ==
    \/ r.kind = "err" /\ ~r.has_status
    \/ /\ r.kind = "ok"
       /\ r.status \in {202, 408, 422}
       /\ ~r.body.decodes

\* C35: when complete() returns, a handle whose poll failed in transport
\* without a status, or whose 202 / 408 / 422 body could not be decoded, is
\* no longer pending, exactly like a terminal outcome; a handle that left
\* the pending list never returns to it and a round polls pending handles
\* only, so no later call polls it.
C35_UndecidedRemoved ==
    /\ [](Returned =>
            \A i \in 1..Len(polls) :
                UndecidedAnswer(polls[i]) =>
                    /\ ~statements[i].ok
                    /\ statements[i].tag \in {"UnknownResponse", "Decode"}
                    /\ before[i] \notin Range(statement_handles))
    /\ [][Range(statement_handles') \subseteq Range(statement_handles)]_vars
    /\ [](cpc = "polling" => Range(before) \subseteq Range(statement_handles))

C35_Witness ==
    /\ Returned
    /\ Len(before) = 2
    /\ polls[1].kind = "err" /\ ~polls[1].has_status
    /\ polls[2].kind = "ok" /\ polls[2].status = 202 /\ ~polls[2].body.decodes
    /\ statement_handles = <<>>

----------------------------------------------------------------------------
\* Further claim about the builder (BuildSpec)

\* C36: while the batch is built, additional_statements_count > 0 implies
\* that a text was pushed; finish_sql on a total of one therefore finds
\* exactly one pushed text and yields a Single statement holding that text,
\* never failing on an empty list, and on every other total, zero included,
\* it yields a Multiple batch.
C36_SingleHasItsText ==
    /\ [](bphase = "building" =>
            (additional_statements_count > 0 => Len(statement) >= 1))
    /\ [](bphase # "panicked")
    /\ [][(bphase = "building" /\ last_op' = "finish_sql") =>
            IF Len(statement) + additional_statements_count = 1
            THEN /\ Len(statement) = 1
                 /\ additional_statements_count = 0
                 /\ bphase' = "single"
                 /\ single_statement' = statement[1]
            ELSE /\ bphase' = "multiple"
                 /\ statement' = statement]_vars

\* one add_multiple_sql of count 1 finished as a Single statement
C36_Witness ==
    /\ bphase = "single"
    /\ last_op = "finish_sql"
    /\ logical = 1
    /\ single_statement = "B;"
    /\ statement = <<>>

----------------------------------------------------------------------------
\* Further claim about the derived decoder (DecodeSpec)

\* C32: a decode that succeeds returns as many records as the data matrix
\* has rows, record k holding the values of the cells of row k, whatever
\* numRows says; numRows has no part in the result.
C32_OneRecordPerRow ==
    (dec_pc = "returned" /\ dec_ret.tag = "ok") =>
        /\ Len(dec_ret.data) = Len(response.data)
        /\ \A k \in 1..Len(response.data) :
              /\ Len(response.data[k]) >= Len(FieldNames)
              /\ response.data[k][1] = "3"
              /\ dec_ret.data[k][1] = 3
              /\ dec_ret.data[k][2] \in {None, Some(response.data[k][2])}
              /\ dec_ret.data[k][2] = None => response.data[k][2] = "NULL"

\* two rows decoded although numRows announces none
C32_Witness ==
    /\ dec_pc = "returned"
    /\ dec_ret.tag = "ok"
    /\ response.num_rows = 0
    /\ response.data = << <<"3", "x">>, <<"3", "abc">> >>
    /\ Len(dec_ret.data) = 2
    /\ dec_ret.data[2][2] = Some("abc")

----------------------------------------------------------------------------
\* Lazy rows: LazyRows and LazyRow (lazy.rs)

\* columns of rowType and cells of a row
MaxColumns == 2

\* rows of the data matrix
MaxLazyRows == 1

\* the names rowType may give to a column, and the names a caller asks for
ColumnNames == {"id", "name"}
AskedNames == ColumnNames \cup {"zz"}

\* the texts of a cell: a JSON number and a text that is no JSON
LazyCellTexts == {"3", "abc"}

\* metadata.row_type, by name; the body does not tie it to the row lengths
RowTypes == UNION {[1..n -> ColumnNames] : n \in 0..MaxColumns}

\* data: Vec<Vec<String>>
LazyMatrices ==
    LET cells == UNION {[1..n -> LazyCellTexts] : n \in 0..MaxColumns}
    IN  UNION {[1..m -> cells] : m \in 0..MaxLazyRows}

\* parse_rows: for (i, row_type) in row_type.iter().enumerate()
\*                 { name_index_map.insert(row_type.name.clone(), i) }
RECURSIVE InsertNames(_, _, _)
InsertNames(row_type, i, map) ==
    IF i > Len(row_type)
    THEN map
    ELSE InsertNames(row_type, i + 1, (row_type[i] :> (i - 1)) @@ map)

NameIndexMap(row_type) == InsertNames(row_type, 1, <<>>)

\* what an access returns: a value, one of the errors of LazyRowParseError /
\* LazyRowIndexParseError, or a panic
Outcome(kind, value, name, column) ==
    [kind |-> kind, value |-> value, name |-> name, index |-> column]

\* the cell texts that are a JSON integer
JsonIntegers == ("3" :> 3)

\* serde_json::from_str::<T>(s) for an integer T
FromJson(s) ==
    IF s \in DOMAIN JsonIntegers
    THEN Outcome("ok", JsonIntegers[s], "", 0)
    ELSE Outcome("Deserialize", 0, "", 0)

\* LazyRow::get: the index found for the name is used with data[index]
get(data, column_name) ==
    IF column_name \in DOMAIN name_index_map
    THEN LET i == name_index_map[column_name]
         IN  IF i >= Len(data)
             THEN Outcome("panic", 0, "", 0)
             ELSE FromJson(data[i + 1])
    ELSE Outcome("UnknownName", 0, column_name, 0)

\* LazyRow::get_from_index: data.get(column_index)
get_from_index(data, column_index) ==
    IF column_index < Len(data)
    THEN FromJson(data[column_index + 1])
    ELSE Outcome("InvalidIndex", 0, "", column_index)

\* get_index_of_column: name_index_map.get(column_name).map(|index| *index)
get_index_of_column(column_name) ==
    IF column_name \in DOMAIN name_index_map
    THEN Outcome("Some", name_index_map[column_name], "", 0)
    ELSE Outcome("None", 0, "", 0)

Access(call, row_index, name, column, r) ==
    [call |-> call, row |-> row_index, name |-> name, index |-> column,
     kind |-> r.kind, value |-> r.value]

\* rows.at(k).get(column_name)
Get ==
    /\ lz_pc = "parsed"
    /\ \E k \in 1..Len(lazy_rows.data), column_name \in AskedNames :
         LET r == get(lazy_rows.data[k], column_name)
         IN  /\ access' = Access("get", k, column_name, 0, r)
             /\ lz_pc' = IF r.kind = "panic" THEN "panicked" ELSE "parsed"
    /\ UNCHANGED <<lazy_rows, name_index_map>>

\* rows.at(k).get_from_index(column_index)
GetFromIndex ==
    /\ lz_pc = "parsed"
    /\ \E k \in 1..Len(lazy_rows.data), column_index \in 0..MaxColumns :
         access' = Access("get_from_index", k, "", column_index,
                          get_from_index(lazy_rows.data[k], column_index))
    /\ UNCHANGED <<lz_pc, lazy_rows, name_index_map>>

\* rows.get_index_of_column(column_name)
GetIndexOfColumn ==
    /\ lz_pc = "parsed"
    /\ \E column_name \in AskedNames :
         access' = Access("get_index_of_column", 0, column_name, 0,
                          get_index_of_column(column_name))
    /\ UNCHANGED <<lz_pc, lazy_rows, name_index_map>>

\* rows.at(index): Some(row) when data has that row, None otherwise
At ==
    /\ lz_pc = "parsed"
    /\ \E i \in 0..MaxLazyRows :
         access' = Access("at", i + 1, "", 0,
                          IF i < Len(lazy_rows.data)
                          THEN Outcome("Some", 0, "", 0)
                          ELSE Outcome("None", 0, "", 0))
    /\ UNCHANGED <<lz_pc, lazy_rows, name_index_map>>

\* parse_rows returned ParseRows::Parsed(LazyRows { rows, name_index_map })
LazyInit ==
    /\ DrainOff /\ BuildOff /\ SelectOff /\ PartitionOff
    /\ DecodeOff /\ StatementOff /\ AccessOff /\ BindOff /\ CellOff
    /\ lz_pc = "parsed"
    /\ \E row_type \in RowTypes, data \in LazyMatrices :
         /\ lazy_rows = [row_type |-> row_type, data |-> data]
         /\ name_index_map = NameIndexMap(row_type)
    /\ access = NoAccess

LazyFrame ==
    UNCHANGED <<drainVars, buildVars, selVars, pqVars, decVars, stVars, accVars,
                bindVars, cellVars>>

GetStep == Get /\ LazyFrame

GetFromIndexStep == GetFromIndex /\ LazyFrame

GetIndexOfColumnStep == GetIndexOfColumn /\ LazyFrame

AtStep == At /\ LazyFrame

LazyNext ==
    \/ GetStep
    \/ GetFromIndexStep
    \/ GetIndexOfColumnStep
    \/ AtStep

LazySpec == LazyInit /\ [][LazyNext]_vars

----------------------------------------------------------------------------
\* Claims about lazy rows (LazySpec)

\* the row the latest access read
AccessedRow == lazy_rows.data[access.row]

\* the names of the columns of rowType
MetadataNames == {lazy_rows.row_type[i] : i \in 1..Len(lazy_rows.row_type)}

\* C31: every access to a lazy row returns a value or a per-access error: a
\* name absent from the metadata gives UnknownName, an index beyond the
\* cells of the row gives InvalidIndex, a cell that does not parse gives a
\* parse error; no access ends abnormally, also when the index of a known
\* column lies beyond a short row.
C31_AccessNeverAbnormal ==
    /\ lz_pc # "panicked"
    /\ access.call = "get" =>
         /\ access.kind \in {"ok", "UnknownName", "Deserialize"}
         /\ (access.kind = "UnknownName") = (access.name \notin MetadataNames)
    /\ access.call = "get_from_index" =>
         /\ access.kind \in {"ok", "InvalidIndex", "Deserialize"}
         /\ (access.kind = "InvalidIndex") = (access.index >= Len(AccessedRow))
         /\ access.kind = "Deserialize" => AccessedRow[access.index + 1] # "3"
         /\ access.kind = "ok" => AccessedRow[access.index + 1] = "3"

\* the 0-based position of the last column of rowType called name
LastColumn(name) ==
    CHOOSE i \in 0..(Len(lazy_rows.row_type) - 1) :
        /\ lazy_rows.row_type[i + 1] = name
        /\ \A j \in (i + 1)..(Len(lazy_rows.row_type) - 1) :
              lazy_rows.row_type[j + 1] # name

\* C38: for a name present in the metadata, get(name) returns what
\* get_from_index(get_index_of_column(name)) returns, the name resolving to
\* the position of the last column of rowType that carries it.
C38_GetIsGetFromIndex ==
    (access.call = "get" /\ access.name \in MetadataNames) =>
        /\ get_index_of_column(access.name).kind = "Some"
        /\ get_index_of_column(access.name).value = LastColumn(access.name)
        /\ LET r == get_from_index(AccessedRow, LastColumn(access.name))
           IN  access.kind = r.kind /\ access.value = r.value

----------------------------------------------------------------------------
\* Decoding a nullable cell: DeserializeFromStr of snowflake-deserialize
\* (lib.rs:92-136, datetime.rs), whose cells are Option<String>

\* the types impl_deserialize_from_str! is applied to, and time::Date
MacroScalars == {"bool", "f32", "f64", "String", "Uuid"}
                \cup SignedTypes \cup UnsignedTypes

CellType(option, scalar) == [option |-> option, scalar |-> scalar]

CellTypes == {CellType(o, t) : o \in BOOLEAN, t \in MacroScalars \cup {"Date"}}

\* a text that is a UUID
UuidText == "67e55044-10b1-426f-9247-bb680e5fe0c8"

\* the cells of the data matrix: null, or a text
Cells == {None} \cup {Some(t) : t \in {"true", "3", "1.5", "abc", UuidText}}

\* <uuid::Uuid>::from_str
UuidFromStr(text) == IF text = UuidText THEN Ok(text) ELSE Err("uuid::Error")

\* <$ty>::from_str
ScalarFromStr(scalar, text) ==
    CASE scalar = "bool" -> BoolFromStr(text)
      [] scalar \in SignedTypes \cup UnsignedTypes -> IntFromStr(scalar, text)
      [] scalar \in {"f32", "f64"} -> FloatFromStr(text)
      [] scalar = "String" -> StringFromStr(text)
      [] scalar = "Uuid" -> UuidFromStr(text)

\* time::Date: s.parse::<f32>(), f as i64, from_unix_timestamp(..).date(),
\* the date as days since 1970-01-01
DateFromStr(text) ==
    LET f == FloatFromStr(text)
    IN  IF ~f.ok \/ f.value.nan
        THEN Err("expected DateTime as float")
        ELSE Ok((f.value.tenths \div 10) \div 86400)

NullScalarMutant(scalar) == Ok(0)

\* a non-nullable type handed a null cell:
\* s.map(<$ty>::from_str).context("unexpected null")?, and for time::Date
\* s.ok_or_else(|| anyhow!("Unexpected null when parsing DateTime"))?
NullScalar(scalar) ==
    IF scalar = "Date"
    THEN Err("Unexpected null when parsing DateTime")
    ELSE Err("unexpected null")

\* T::deserialize_from_str(s) of a non-nullable T
ScalarDeserializeFromStr(scalar, s) ==
    IF ~s.some
    THEN NullScalar(scalar)
    ELSE IF scalar = "Date"
         THEN DateFromStr(s.value)
         ELSE ScalarFromStr(scalar, s.value)

\* impl DeserializeFromStr for Option<T>, and for T
DeserializeFromStr(ty, s) ==
    IF ty.option
    THEN IF ~s.some
         THEN Ok(None)
         ELSE LET r == ScalarDeserializeFromStr(ty.scalar, s)
              IN  IF r.ok THEN Ok(Some(r.value)) ELSE r
    ELSE ScalarDeserializeFromStr(ty.scalar, s)

\* one field of a record is decoded from its cell
DeserializeCell ==
    /\ cell_pc = "cell"
    /\ cell_result' = DeserializeFromStr(cell_type, cell)
    /\ cell_pc' = "decoded"
    /\ UNCHANGED <<cell, cell_type>>

CellInit ==
    /\ DrainOff /\ BuildOff /\ SelectOff /\ PartitionOff
    /\ DecodeOff /\ StatementOff /\ AccessOff /\ BindOff /\ LazyOff
    /\ cell_pc = "cell"
    /\ cell \in Cells
    /\ cell_type \in CellTypes
    /\ cell_result = NoResult

DeserializeCellStep ==
    /\ DeserializeCell
    /\ UNCHANGED <<drainVars, buildVars, selVars, pqVars, decVars, stVars, accVars,
                   bindVars, lazyVars>>

CellNext == DeserializeCellStep

CellSpec == CellInit /\ [][CellNext]_vars

\* C37: a non-nullable scalar field decoded from a null cell ends in an
\* "unexpected null" error, never in a value, so the decode of its record
\* fails; only a nullable field turns the null cell into None.
C37_NullIsAnError ==
    (cell_pc = "decoded" /\ ~cell.some) =>
        IF cell_type.option
        THEN cell_result.ok /\ cell_result.value = None
        ELSE /\ ~cell_result.ok
             /\ cell_result.error \in {"unexpected null",
                                       "Unexpected null when parsing DateTime"}

C37_Witness ==
    /\ cell_pc = "decoded"
    /\ cell = None
    /\ cell_type = CellType(FALSE, "i64")
    /\ cell_result = Err("unexpected null")

====
